---------------------------- MODULE Spec2Model ----------------------------
(***************************************************************************)
(* Fatebound Breach: the deterministic turn engine (vrfMapper.ts,          *)
(* turnResolver.ts), its on-chain mirror (TurnVerifier.sol) and the        *)
(* callers that drive them (the unit tests, the zustand store, the         *)
(* FateboundCore contract).                                                *)
(*                                                                         *)
(* The callers run in runtimes that share no state: the vitest process     *)
(* (the pure helpers called directly, and resolveTurn driven turn by       *)
(* turn), the browser and the EVM.  The variable env says which one a      *)
(* behaviour is in; SpecHelpers, SpecEngine, SpecStore and SpecChain fix   *)
(* it, Spec leaves it open.                                                *)
(***************************************************************************)
EXTENDS Integers, Sequences, FiniteSets, TLC

VARIABLES
    env,                \* "helpers" | "engine" | "store" | "chain": which runtime this behaviour is
    gameState,          \* the client GameState object the caller or the store holds (or NoState)
    call,               \* the last call made: inputs and outcome
    probe,              \* the last pure helper applied, with its arguments and results
    store,              \* the other fields of the zustand store
    timers,             \* the setTimeout callbacks pending, in the order they were scheduled
    chain               \* the storage of FateboundCore

vars == <<env, gameState, call, probe, store, timers, chain>>

(***************************************************************************)
(* Bounds of the model.                                                    *)
(***************************************************************************)
NumSeeds == 2           \* session seeds tried
MaxTurn == 2            \* last turn a played resolution may start from
MaxTargeted == 1        \* packets of a tested assignment list aimed at something other than trash
MaxProbeTurn == 12      \* turns the hand derivation is probed for
StoreTurns == 2         \* turns a store session plays from where it starts
LateTurn == 7           \* turn at which the store's late sessions are picked up
ChainTurns == 2         \* turns submitted to one on-chain game
MaxGames == 2           \* on-chain games started
MaxTimers == 1          \* setTimeout callbacks pending at once
MaxProbeStat == 4       \* largest shield, hp and damage the damage rule is probed with
MaxTasks == 2           \* suspended calls and watchers of an on-chain session at once
MaxStarts == 2          \* times the engine is started in an on-chain session

(***************************************************************************)
(* Small helpers.                                                          *)
(***************************************************************************)
\* A sum left without its cap.
Min_uncapped(a, b) == a
Min(a, b) == IF a < b THEN a ELSE b
\* A subtraction left without its floor.
Max_unfloored(a, b) == b
Max(a, b) == IF a > b THEN a ELSE b
Range(s) == {s[i] : i \in DOMAIN s}

RECURSIVE SeqSum(_)
SeqSum(s) == IF s = <<>> THEN 0 ELSE Head(s) + SeqSum(Tail(s))

RECURSIVE SelectSeqBy(_, _)
\* Array.prototype.filter with the predicate given as the set of kept values.
SelectSeqBy(s, keep) ==
    IF s = <<>> THEN <<>>
    ELSE IF Head(s) \in keep THEN <<Head(s)>> \o SelectSeqBy(Tail(s), keep)
         ELSE SelectSeqBy(Tail(s), keep)

(***************************************************************************)
(* Bytes, seeds and the hash.                                              *)
(***************************************************************************)
Byte == 0..255

\* A bytes32 session seed, as delivered by the entropy callback.
SeedOf(k) == [i \in 1..32 |-> (k * 157 + i * 19) % 256]
Seeds == {SeedOf(k) : k \in 1..NumSeeds}

\* toBytes(levelSeed): the 32 raw bytes of the seed.
toBytes(levelSeed) == levelSeed

RECURSIVE DecimalDigits(_)
\* The ASCII codes of the decimal digits of n, as `${n}` prints them (n >= 0).
DecimalDigits(n) ==
    IF n < 10 THEN <<48 + n>>
    ELSE DecimalDigits(n \div 10) \o <<48 + (n % 10)>>

\* TextEncoder().encode("Turn"), and the string literal "Turn" of abi.encodePacked.
TurnLiteral == <<84, 117, 114, 110>>

\* keccak256 on the preimages hashed here: seed k, 'Turn', the turn as the client
\* writes it and as the verifier writes it, for the turns 1 to 14, and turn 0
\* as the verifier writes it. The digests
\* are the Keccak-256 digests of these byte strings, one row each: the preimage,
\* then the 32 bytes of its digest.
KeccakDigests ==
    <<
    <<176, 195, 214, 233, 252, 15, 34, 53, 72, 91, 110, 129, 148, 167, 186, 205, 224, 243, 6, 25, 44, 63, 82, 101, 120, 139, 158, 177, 196, 215, 234, 253, 84, 117, 114, 110, 49, 185, 242, 10, 203, 9, 178, 95, 47, 154, 183, 1, 79, 38, 36, 136, 152, 153, 24, 235, 51, 72, 252, 4, 250, 120, 56, 42, 240, 202, 105, 7, 254>>,
    <<176, 195, 214, 233, 252, 15, 34, 53, 72, 91, 110, 129, 148, 167, 186, 205, 224, 243, 6, 25, 44, 63, 82, 101, 120, 139, 158, 177, 196, 215, 234, 253, 84, 117, 114, 110, 1, 111, 2, 121, 34, 143, 213, 44, 238, 207, 69, 110, 249, 106, 205, 94, 101, 47, 85, 35, 42, 45, 81, 144, 244, 189, 3, 2, 26, 94, 42, 50, 114>>,
    <<176, 195, 214, 233, 252, 15, 34, 53, 72, 91, 110, 129, 148, 167, 186, 205, 224, 243, 6, 25, 44, 63, 82, 101, 120, 139, 158, 177, 196, 215, 234, 253, 84, 117, 114, 110, 50, 213, 245, 196, 172, 152, 253, 193, 101, 227, 186, 179, 22, 153, 200, 106, 12, 208, 236, 22, 235, 180, 67, 241, 103, 60, 241, 90, 94, 95, 1, 103, 41>>,
    <<176, 195, 214, 233, 252, 15, 34, 53, 72, 91, 110, 129, 148, 167, 186, 205, 224, 243, 6, 25, 44, 63, 82, 101, 120, 139, 158, 177, 196, 215, 234, 253, 84, 117, 114, 110, 2, 90, 94, 42, 207, 148, 241, 99, 177, 71, 98, 129, 30, 187, 14, 238, 37, 228, 151, 58, 115, 54, 218, 95, 1, 107, 230, 146, 228, 118, 83, 60, 232>>,
    <<176, 195, 214, 233, 252, 15, 34, 53, 72, 91, 110, 129, 148, 167, 186, 205, 224, 243, 6, 25, 44, 63, 82, 101, 120, 139, 158, 177, 196, 215, 234, 253, 84, 117, 114, 110, 51, 50, 255, 89, 179, 50, 190, 142, 141, 38, 159, 57, 12, 74, 144, 164, 75, 212, 216, 66, 200, 9, 54, 122, 200, 119, 137, 239, 199, 173, 217, 91, 123>>,
    <<176, 195, 214, 233, 252, 15, 34, 53, 72, 91, 110, 129, 148, 167, 186, 205, 224, 243, 6, 25, 44, 63, 82, 101, 120, 139, 158, 177, 196, 215, 234, 253, 84, 117, 114, 110, 3, 95, 143, 71, 156, 191, 103, 28, 185, 12, 6, 64, 193, 219, 33, 190, 194, 132, 185, 131, 25, 34, 67, 120, 246, 143, 101, 119, 169, 240, 242, 215, 194>>,
    <<176, 195, 214, 233, 252, 15, 34, 53, 72, 91, 110, 129, 148, 167, 186, 205, 224, 243, 6, 25, 44, 63, 82, 101, 120, 139, 158, 177, 196, 215, 234, 253, 84, 117, 114, 110, 52, 46, 134, 81, 246, 162, 212, 126, 202, 247, 8, 28, 120, 5, 76, 158, 239, 24, 138, 51, 236, 221, 179, 80, 151, 93, 73, 111, 140, 211, 253, 118, 180>>,
    <<176, 195, 214, 233, 252, 15, 34, 53, 72, 91, 110, 129, 148, 167, 186, 205, 224, 243, 6, 25, 44, 63, 82, 101, 120, 139, 158, 177, 196, 215, 234, 253, 84, 117, 114, 110, 4, 113, 113, 203, 123, 249, 237, 37, 217, 226, 204, 182, 31, 207, 234, 206, 84, 88, 72, 40, 251, 63, 170, 251, 252, 195, 70, 248, 17, 194, 189, 57, 204>>,
    <<176, 195, 214, 233, 252, 15, 34, 53, 72, 91, 110, 129, 148, 167, 186, 205, 224, 243, 6, 25, 44, 63, 82, 101, 120, 139, 158, 177, 196, 215, 234, 253, 84, 117, 114, 110, 53, 109, 66, 78, 221, 36, 192, 130, 93, 108, 150, 224, 161, 4, 121, 141, 248, 178, 33, 133, 44, 66, 4, 192, 164, 167, 233, 178, 90, 42, 107, 22, 4>>,
    <<176, 195, 214, 233, 252, 15, 34, 53, 72, 91, 110, 129, 148, 167, 186, 205, 224, 243, 6, 25, 44, 63, 82, 101, 120, 139, 158, 177, 196, 215, 234, 253, 84, 117, 114, 110, 5, 255, 211, 121, 75, 104, 158, 43, 248, 67, 154, 118, 74, 199, 13, 192, 140, 131, 86, 64, 146, 18, 73, 183, 173, 29, 97, 192, 21, 66, 126, 132, 16>>,
    <<176, 195, 214, 233, 252, 15, 34, 53, 72, 91, 110, 129, 148, 167, 186, 205, 224, 243, 6, 25, 44, 63, 82, 101, 120, 139, 158, 177, 196, 215, 234, 253, 84, 117, 114, 110, 54, 249, 162, 231, 104, 193, 0, 11, 228, 41, 164, 72, 69, 120, 19, 137, 221, 235, 241, 47, 14, 90, 76, 7, 130, 154, 7, 3, 186, 192, 117, 253, 39>>,
    <<176, 195, 214, 233, 252, 15, 34, 53, 72, 91, 110, 129, 148, 167, 186, 205, 224, 243, 6, 25, 44, 63, 82, 101, 120, 139, 158, 177, 196, 215, 234, 253, 84, 117, 114, 110, 6, 224, 92, 193, 80, 92, 100, 215, 71, 85, 87, 52, 189, 138, 202, 70, 185, 82, 71, 200, 154, 167, 125, 102, 115, 88, 94, 251, 196, 50, 179, 61, 151>>,
    <<176, 195, 214, 233, 252, 15, 34, 53, 72, 91, 110, 129, 148, 167, 186, 205, 224, 243, 6, 25, 44, 63, 82, 101, 120, 139, 158, 177, 196, 215, 234, 253, 84, 117, 114, 110, 55, 221, 175, 54, 102, 252, 59, 55, 87, 95, 105, 205, 82, 171, 93, 144, 142, 116, 63, 134, 245, 174, 4, 169, 245, 177, 122, 245, 219, 138, 205, 52, 116>>,
    <<176, 195, 214, 233, 252, 15, 34, 53, 72, 91, 110, 129, 148, 167, 186, 205, 224, 243, 6, 25, 44, 63, 82, 101, 120, 139, 158, 177, 196, 215, 234, 253, 84, 117, 114, 110, 7, 238, 112, 237, 253, 149, 246, 192, 130, 196, 66, 148, 209, 245, 203, 28, 33, 115, 205, 177, 234, 204, 127, 142, 13, 167, 73, 179, 8, 110, 37, 125, 139>>,
    <<176, 195, 214, 233, 252, 15, 34, 53, 72, 91, 110, 129, 148, 167, 186, 205, 224, 243, 6, 25, 44, 63, 82, 101, 120, 139, 158, 177, 196, 215, 234, 253, 84, 117, 114, 110, 56, 73, 100, 1, 49, 161, 95, 132, 12, 3, 189, 89, 122, 230, 100, 98, 111, 197, 247, 250, 16, 14, 94, 65, 175, 239, 22, 72, 52, 246, 55, 92, 82>>,
    <<176, 195, 214, 233, 252, 15, 34, 53, 72, 91, 110, 129, 148, 167, 186, 205, 224, 243, 6, 25, 44, 63, 82, 101, 120, 139, 158, 177, 196, 215, 234, 253, 84, 117, 114, 110, 8, 81, 148, 181, 248, 98, 107, 81, 98, 103, 108, 225, 43, 47, 173, 152, 248, 192, 71, 35, 187, 5, 237, 53, 109, 178, 255, 25, 141, 212, 169, 204, 182>>,
    <<176, 195, 214, 233, 252, 15, 34, 53, 72, 91, 110, 129, 148, 167, 186, 205, 224, 243, 6, 25, 44, 63, 82, 101, 120, 139, 158, 177, 196, 215, 234, 253, 84, 117, 114, 110, 57, 6, 56, 92, 184, 45, 105, 249, 68, 6, 235, 43, 150, 226, 54, 183, 58, 37, 114, 81, 81, 15, 67, 197, 42, 135, 116, 235, 8, 101, 152, 72, 145>>,
    <<176, 195, 214, 233, 252, 15, 34, 53, 72, 91, 110, 129, 148, 167, 186, 205, 224, 243, 6, 25, 44, 63, 82, 101, 120, 139, 158, 177, 196, 215, 234, 253, 84, 117, 114, 110, 9, 140, 37, 182, 214, 77, 240, 156, 65, 25, 165, 39, 162, 74, 191, 255, 171, 207, 252, 205, 205, 161, 219, 242, 213, 119, 13, 175, 174, 215, 70, 249, 28>>,
    <<176, 195, 214, 233, 252, 15, 34, 53, 72, 91, 110, 129, 148, 167, 186, 205, 224, 243, 6, 25, 44, 63, 82, 101, 120, 139, 158, 177, 196, 215, 234, 253, 84, 117, 114, 110, 49, 48, 16, 21, 51, 126, 110, 112, 114, 19, 179, 228, 36, 214, 210, 255, 194, 0, 52, 204, 85, 48, 103, 114, 76, 193, 222, 19, 199, 237, 196, 135, 12, 220>>,
    <<176, 195, 214, 233, 252, 15, 34, 53, 72, 91, 110, 129, 148, 167, 186, 205, 224, 243, 6, 25, 44, 63, 82, 101, 120, 139, 158, 177, 196, 215, 234, 253, 84, 117, 114, 110, 10, 241, 172, 200, 209, 116, 237, 57, 254, 224, 124, 42, 2, 218, 196, 243, 26, 14, 177, 196, 139, 113, 172, 226, 99, 246, 217, 100, 97, 16, 89, 112, 157>>,
    <<176, 195, 214, 233, 252, 15, 34, 53, 72, 91, 110, 129, 148, 167, 186, 205, 224, 243, 6, 25, 44, 63, 82, 101, 120, 139, 158, 177, 196, 215, 234, 253, 84, 117, 114, 110, 49, 49, 37, 113, 218, 100, 132, 208, 19, 176, 246, 171, 102, 180, 117, 138, 241, 143, 120, 150, 60, 111, 168, 8, 147, 167, 196, 64, 242, 112, 213, 12, 108, 15>>,
    <<176, 195, 214, 233, 252, 15, 34, 53, 72, 91, 110, 129, 148, 167, 186, 205, 224, 243, 6, 25, 44, 63, 82, 101, 120, 139, 158, 177, 196, 215, 234, 253, 84, 117, 114, 110, 11, 121, 146, 14, 48, 110, 167, 47, 139, 177, 142, 59, 114, 98, 233, 207, 131, 48, 195, 144, 109, 9, 16, 160, 239, 122, 102, 109, 166, 173, 148, 165, 214>>,
    <<176, 195, 214, 233, 252, 15, 34, 53, 72, 91, 110, 129, 148, 167, 186, 205, 224, 243, 6, 25, 44, 63, 82, 101, 120, 139, 158, 177, 196, 215, 234, 253, 84, 117, 114, 110, 49, 50, 88, 205, 60, 142, 137, 133, 58, 120, 255, 31, 230, 96, 6, 158, 147, 78, 125, 179, 104, 85, 102, 172, 27, 81, 63, 18, 253, 36, 81, 92, 111, 198>>,
    <<176, 195, 214, 233, 252, 15, 34, 53, 72, 91, 110, 129, 148, 167, 186, 205, 224, 243, 6, 25, 44, 63, 82, 101, 120, 139, 158, 177, 196, 215, 234, 253, 84, 117, 114, 110, 12, 31, 248, 173, 202, 229, 83, 185, 153, 142, 138, 194, 232, 242, 90, 218, 140, 121, 22, 143, 184, 151, 248, 59, 12, 66, 38, 117, 59, 100, 232, 144, 26>>,
    <<176, 195, 214, 233, 252, 15, 34, 53, 72, 91, 110, 129, 148, 167, 186, 205, 224, 243, 6, 25, 44, 63, 82, 101, 120, 139, 158, 177, 196, 215, 234, 253, 84, 117, 114, 110, 49, 51, 25, 34, 200, 64, 54, 231, 17, 155, 1, 228, 158, 246, 13, 244, 236, 42, 146, 42, 71, 108, 157, 13, 245, 40, 15, 154, 125, 112, 232, 249, 42, 64>>,
    <<176, 195, 214, 233, 252, 15, 34, 53, 72, 91, 110, 129, 148, 167, 186, 205, 224, 243, 6, 25, 44, 63, 82, 101, 120, 139, 158, 177, 196, 215, 234, 253, 84, 117, 114, 110, 13, 120, 175, 8, 246, 158, 109, 17, 163, 4, 35, 181, 222, 150, 109, 212, 248, 25, 7, 103, 76, 201, 83, 182, 178, 128, 67, 4, 134, 88, 100, 244, 47>>,
    <<176, 195, 214, 233, 252, 15, 34, 53, 72, 91, 110, 129, 148, 167, 186, 205, 224, 243, 6, 25, 44, 63, 82, 101, 120, 139, 158, 177, 196, 215, 234, 253, 84, 117, 114, 110, 49, 52, 95, 30, 201, 148, 17, 197, 220, 224, 84, 106, 70, 212, 161, 180, 204, 52, 192, 199, 201, 94, 39, 149, 98, 18, 92, 95, 38, 181, 55, 114, 4, 154>>,
    <<176, 195, 214, 233, 252, 15, 34, 53, 72, 91, 110, 129, 148, 167, 186, 205, 224, 243, 6, 25, 44, 63, 82, 101, 120, 139, 158, 177, 196, 215, 234, 253, 84, 117, 114, 110, 14, 211, 221, 65, 34, 82, 197, 142, 79, 79, 173, 237, 197, 19, 158, 99, 133, 181, 196, 30, 227, 205, 72, 109, 9, 232, 196, 22, 26, 188, 244, 76, 194>>,
    <<77, 96, 115, 134, 153, 172, 191, 210, 229, 248, 11, 30, 49, 68, 87, 106, 125, 144, 163, 182, 201, 220, 239, 2, 21, 40, 59, 78, 97, 116, 135, 154, 84, 117, 114, 110, 49, 171, 22, 70, 194, 46, 124, 89, 111, 113, 156, 50, 251, 5, 185, 27, 6, 16, 146, 181, 81, 226, 55, 107, 243, 88, 68, 238, 168, 147, 78, 138, 247>>,
    <<77, 96, 115, 134, 153, 172, 191, 210, 229, 248, 11, 30, 49, 68, 87, 106, 125, 144, 163, 182, 201, 220, 239, 2, 21, 40, 59, 78, 97, 116, 135, 154, 84, 117, 114, 110, 1, 46, 217, 26, 18, 77, 123, 33, 101, 212, 221, 210, 103, 3, 88, 41, 67, 13, 163, 12, 135, 111, 61, 62, 220, 114, 77, 37, 1, 207, 164, 74, 207>>,
    <<77, 96, 115, 134, 153, 172, 191, 210, 229, 248, 11, 30, 49, 68, 87, 106, 125, 144, 163, 182, 201, 220, 239, 2, 21, 40, 59, 78, 97, 116, 135, 154, 84, 117, 114, 110, 50, 255, 116, 194, 38, 214, 104, 140, 235, 94, 192, 188, 179, 97, 42, 13, 55, 167, 125, 50, 147, 121, 164, 8, 112, 181, 92, 16, 222, 208, 218, 243, 139>>,
    <<77, 96, 115, 134, 153, 172, 191, 210, 229, 248, 11, 30, 49, 68, 87, 106, 125, 144, 163, 182, 201, 220, 239, 2, 21, 40, 59, 78, 97, 116, 135, 154, 84, 117, 114, 110, 2, 201, 37, 77, 119, 204, 75, 130, 30, 89, 115, 95, 63, 125, 64, 228, 174, 143, 37, 38, 1, 15, 215, 178, 12, 70, 221, 146, 98, 153, 109, 236, 217>>,
    <<77, 96, 115, 134, 153, 172, 191, 210, 229, 248, 11, 30, 49, 68, 87, 106, 125, 144, 163, 182, 201, 220, 239, 2, 21, 40, 59, 78, 97, 116, 135, 154, 84, 117, 114, 110, 51, 183, 255, 93, 30, 221, 236, 219, 70, 209, 11, 151, 29, 37, 107, 151, 10, 12, 138, 242, 6, 225, 175, 110, 55, 102, 74, 64, 14, 177, 84, 201, 71>>,
    <<77, 96, 115, 134, 153, 172, 191, 210, 229, 248, 11, 30, 49, 68, 87, 106, 125, 144, 163, 182, 201, 220, 239, 2, 21, 40, 59, 78, 97, 116, 135, 154, 84, 117, 114, 110, 3, 195, 70, 244, 86, 31, 205, 187, 85, 20, 151, 233, 82, 141, 40, 24, 24, 25, 164, 121, 58, 93, 246, 0, 117, 178, 26, 161, 69, 142, 8, 191, 196>>,
    <<77, 96, 115, 134, 153, 172, 191, 210, 229, 248, 11, 30, 49, 68, 87, 106, 125, 144, 163, 182, 201, 220, 239, 2, 21, 40, 59, 78, 97, 116, 135, 154, 84, 117, 114, 110, 52, 105, 211, 98, 170, 226, 194, 235, 180, 84, 116, 159, 32, 22, 177, 31, 138, 113, 68, 176, 134, 201, 133, 101, 132, 187, 106, 116, 37, 169, 3, 40, 216>>,
    <<77, 96, 115, 134, 153, 172, 191, 210, 229, 248, 11, 30, 49, 68, 87, 106, 125, 144, 163, 182, 201, 220, 239, 2, 21, 40, 59, 78, 97, 116, 135, 154, 84, 117, 114, 110, 4, 120, 207, 241, 189, 153, 49, 115, 86, 169, 75, 36, 161, 54, 125, 180, 204, 134, 4, 21, 231, 54, 71, 97, 241, 145, 79, 47, 230, 16, 87, 24, 253>>,
    <<77, 96, 115, 134, 153, 172, 191, 210, 229, 248, 11, 30, 49, 68, 87, 106, 125, 144, 163, 182, 201, 220, 239, 2, 21, 40, 59, 78, 97, 116, 135, 154, 84, 117, 114, 110, 53, 83, 31, 83, 252, 188, 78, 117, 5, 0, 18, 239, 80, 251, 105, 27, 155, 27, 53, 221, 138, 113, 104, 56, 208, 142, 60, 49, 108, 156, 242, 31, 204>>,
    <<77, 96, 115, 134, 153, 172, 191, 210, 229, 248, 11, 30, 49, 68, 87, 106, 125, 144, 163, 182, 201, 220, 239, 2, 21, 40, 59, 78, 97, 116, 135, 154, 84, 117, 114, 110, 5, 100, 157, 122, 190, 109, 199, 147, 30, 200, 191, 89, 27, 152, 132, 143, 213, 105, 244, 253, 33, 132, 127, 0, 45, 28, 20, 118, 241, 150, 181, 103, 131>>,
    <<77, 96, 115, 134, 153, 172, 191, 210, 229, 248, 11, 30, 49, 68, 87, 106, 125, 144, 163, 182, 201, 220, 239, 2, 21, 40, 59, 78, 97, 116, 135, 154, 84, 117, 114, 110, 54, 208, 48, 23, 100, 11, 15, 40, 21, 245, 185, 214, 191, 0, 74, 136, 59, 189, 50, 168, 134, 208, 245, 108, 221, 91, 79, 96, 124, 111, 183, 53, 209>>,
    <<77, 96, 115, 134, 153, 172, 191, 210, 229, 248, 11, 30, 49, 68, 87, 106, 125, 144, 163, 182, 201, 220, 239, 2, 21, 40, 59, 78, 97, 116, 135, 154, 84, 117, 114, 110, 6, 11, 96, 31, 20, 44, 16, 137, 164, 119, 157, 248, 27, 27, 141, 55, 123, 153, 79, 65, 136, 127, 183, 119, 16, 46, 86, 88, 138, 110, 91, 16, 17>>,
    <<77, 96, 115, 134, 153, 172, 191, 210, 229, 248, 11, 30, 49, 68, 87, 106, 125, 144, 163, 182, 201, 220, 239, 2, 21, 40, 59, 78, 97, 116, 135, 154, 84, 117, 114, 110, 55, 190, 222, 3, 120, 88, 102, 68, 112, 187, 153, 173, 139, 232, 129, 116, 133, 46, 10, 119, 217, 225, 64, 41, 47, 9, 225, 0, 186, 79, 189, 246, 47>>,
    <<77, 96, 115, 134, 153, 172, 191, 210, 229, 248, 11, 30, 49, 68, 87, 106, 125, 144, 163, 182, 201, 220, 239, 2, 21, 40, 59, 78, 97, 116, 135, 154, 84, 117, 114, 110, 7, 163, 194, 238, 148, 235, 32, 136, 88, 70, 179, 95, 131, 169, 8, 64, 159, 8, 129, 179, 42, 218, 184, 199, 99, 231, 201, 50, 228, 191, 49, 199, 215>>,
    <<77, 96, 115, 134, 153, 172, 191, 210, 229, 248, 11, 30, 49, 68, 87, 106, 125, 144, 163, 182, 201, 220, 239, 2, 21, 40, 59, 78, 97, 116, 135, 154, 84, 117, 114, 110, 56, 235, 254, 155, 129, 145, 235, 160, 22, 90, 200, 103, 81, 42, 246, 197, 30, 168, 26, 19, 80, 95, 49, 201, 1, 150, 82, 23, 17, 121, 73, 218, 75>>,
    <<77, 96, 115, 134, 153, 172, 191, 210, 229, 248, 11, 30, 49, 68, 87, 106, 125, 144, 163, 182, 201, 220, 239, 2, 21, 40, 59, 78, 97, 116, 135, 154, 84, 117, 114, 110, 8, 111, 158, 99, 82, 102, 126, 34, 233, 93, 97, 198, 59, 112, 39, 84, 15, 106, 244, 99, 196, 102, 143, 121, 27, 228, 132, 95, 78, 208, 193, 161, 101>>,
    <<77, 96, 115, 134, 153, 172, 191, 210, 229, 248, 11, 30, 49, 68, 87, 106, 125, 144, 163, 182, 201, 220, 239, 2, 21, 40, 59, 78, 97, 116, 135, 154, 84, 117, 114, 110, 57, 243, 155, 93, 13, 191, 72, 204, 170, 201, 36, 207, 173, 151, 53, 42, 4, 3, 34, 116, 237, 139, 179, 202, 45, 126, 51, 214, 252, 30, 105, 180, 219>>,
    <<77, 96, 115, 134, 153, 172, 191, 210, 229, 248, 11, 30, 49, 68, 87, 106, 125, 144, 163, 182, 201, 220, 239, 2, 21, 40, 59, 78, 97, 116, 135, 154, 84, 117, 114, 110, 9, 233, 147, 55, 72, 89, 251, 161, 200, 67, 40, 199, 197, 203, 73, 178, 96, 129, 10, 138, 132, 32, 61, 161, 148, 218, 99, 51, 99, 201, 107, 111, 98>>,
    <<77, 96, 115, 134, 153, 172, 191, 210, 229, 248, 11, 30, 49, 68, 87, 106, 125, 144, 163, 182, 201, 220, 239, 2, 21, 40, 59, 78, 97, 116, 135, 154, 84, 117, 114, 110, 49, 48, 172, 155, 15, 178, 29, 26, 37, 38, 245, 186, 217, 17, 183, 220, 129, 86, 189, 159, 78, 244, 40, 68, 77, 93, 170, 125, 119, 232, 2, 131, 132, 107>>,
    <<77, 96, 115, 134, 153, 172, 191, 210, 229, 248, 11, 30, 49, 68, 87, 106, 125, 144, 163, 182, 201, 220, 239, 2, 21, 40, 59, 78, 97, 116, 135, 154, 84, 117, 114, 110, 10, 203, 234, 187, 12, 11, 71, 150, 30, 129, 230, 93, 164, 238, 119, 206, 121, 135, 139, 155, 19, 251, 62, 210, 252, 186, 160, 241, 60, 241, 31, 145, 22>>,
    <<77, 96, 115, 134, 153, 172, 191, 210, 229, 248, 11, 30, 49, 68, 87, 106, 125, 144, 163, 182, 201, 220, 239, 2, 21, 40, 59, 78, 97, 116, 135, 154, 84, 117, 114, 110, 49, 49, 109, 168, 207, 53, 50, 221, 114, 136, 219, 176, 80, 103, 115, 22, 195, 241, 64, 121, 170, 159, 163, 252, 233, 77, 46, 73, 68, 223, 227, 231, 44, 148>>,
    <<77, 96, 115, 134, 153, 172, 191, 210, 229, 248, 11, 30, 49, 68, 87, 106, 125, 144, 163, 182, 201, 220, 239, 2, 21, 40, 59, 78, 97, 116, 135, 154, 84, 117, 114, 110, 11, 168, 66, 237, 173, 41, 222, 239, 240, 5, 63, 70, 218, 81, 6, 63, 34, 152, 108, 27, 79, 103, 103, 63, 239, 167, 5, 48, 90, 140, 116, 182, 169>>,
    <<77, 96, 115, 134, 153, 172, 191, 210, 229, 248, 11, 30, 49, 68, 87, 106, 125, 144, 163, 182, 201, 220, 239, 2, 21, 40, 59, 78, 97, 116, 135, 154, 84, 117, 114, 110, 49, 50, 245, 165, 75, 7, 202, 3, 144, 63, 220, 223, 176, 225, 196, 7, 159, 14, 241, 101, 8, 35, 246, 217, 68, 34, 29, 164, 186, 192, 238, 44, 111, 220>>,
    <<77, 96, 115, 134, 153, 172, 191, 210, 229, 248, 11, 30, 49, 68, 87, 106, 125, 144, 163, 182, 201, 220, 239, 2, 21, 40, 59, 78, 97, 116, 135, 154, 84, 117, 114, 110, 12, 234, 19, 0, 82, 233, 67, 168, 89, 201, 44, 123, 186, 136, 211, 165, 67, 47, 57, 117, 175, 231, 12, 36, 70, 178, 124, 99, 121, 174, 242, 201, 144>>,
    <<77, 96, 115, 134, 153, 172, 191, 210, 229, 248, 11, 30, 49, 68, 87, 106, 125, 144, 163, 182, 201, 220, 239, 2, 21, 40, 59, 78, 97, 116, 135, 154, 84, 117, 114, 110, 49, 51, 58, 29, 99, 188, 116, 172, 24, 39, 64, 121, 61, 133, 67, 27, 1, 125, 27, 249, 32, 219, 28, 47, 20, 169, 63, 224, 80, 219, 66, 74, 248, 223>>,
    <<77, 96, 115, 134, 153, 172, 191, 210, 229, 248, 11, 30, 49, 68, 87, 106, 125, 144, 163, 182, 201, 220, 239, 2, 21, 40, 59, 78, 97, 116, 135, 154, 84, 117, 114, 110, 13, 220, 128, 205, 30, 251, 221, 251, 68, 130, 248, 202, 92, 82, 159, 5, 43, 211, 75, 62, 204, 103, 250, 135, 208, 201, 132, 127, 139, 183, 239, 111, 10>>,
    <<77, 96, 115, 134, 153, 172, 191, 210, 229, 248, 11, 30, 49, 68, 87, 106, 125, 144, 163, 182, 201, 220, 239, 2, 21, 40, 59, 78, 97, 116, 135, 154, 84, 117, 114, 110, 49, 52, 5, 205, 214, 132, 90, 183, 107, 104, 189, 129, 205, 39, 60, 227, 154, 185, 13, 164, 87, 151, 156, 16, 157, 59, 15, 97, 102, 133, 226, 236, 152, 54>>,
    <<77, 96, 115, 134, 153, 172, 191, 210, 229, 248, 11, 30, 49, 68, 87, 106, 125, 144, 163, 182, 201, 220, 239, 2, 21, 40, 59, 78, 97, 116, 135, 154, 84, 117, 114, 110, 14, 75, 49, 223, 69, 153, 112, 24, 83, 77, 14, 33, 86, 129, 143, 75, 32, 195, 218, 226, 25, 88, 196, 133, 187, 164, 13, 50, 211, 56, 153, 48, 251>>,
    <<234, 253, 16, 35, 54, 73, 92, 111, 130, 149, 168, 187, 206, 225, 244, 7, 26, 45, 64, 83, 102, 121, 140, 159, 178, 197, 216, 235, 254, 17, 36, 55, 84, 117, 114, 110, 49, 100, 228, 109, 222, 1, 167, 122, 61, 236, 4, 10, 222, 205, 89, 145, 133, 79, 24, 249, 91, 106, 192, 125, 245, 244, 170, 22, 217, 0, 177, 159, 56>>,
    <<234, 253, 16, 35, 54, 73, 92, 111, 130, 149, 168, 187, 206, 225, 244, 7, 26, 45, 64, 83, 102, 121, 140, 159, 178, 197, 216, 235, 254, 17, 36, 55, 84, 117, 114, 110, 1, 144, 95, 214, 153, 244, 206, 96, 87, 55, 20, 68, 122, 50, 251, 130, 114, 38, 106, 86, 16, 106, 135, 250, 164, 62, 246, 208, 81, 152, 78, 14, 115>>,
    <<234, 253, 16, 35, 54, 73, 92, 111, 130, 149, 168, 187, 206, 225, 244, 7, 26, 45, 64, 83, 102, 121, 140, 159, 178, 197, 216, 235, 254, 17, 36, 55, 84, 117, 114, 110, 50, 24, 9, 255, 38, 54, 19, 177, 176, 126, 18, 121, 34, 63, 242, 194, 72, 159, 235, 92, 141, 138, 2, 99, 123, 21, 196, 22, 188, 119, 56, 158, 132>>,
    <<234, 253, 16, 35, 54, 73, 92, 111, 130, 149, 168, 187, 206, 225, 244, 7, 26, 45, 64, 83, 102, 121, 140, 159, 178, 197, 216, 235, 254, 17, 36, 55, 84, 117, 114, 110, 2, 127, 56, 108, 140, 30, 208, 42, 84, 11, 92, 58, 249, 240, 83, 99, 84, 221, 175, 195, 128, 47, 32, 54, 44, 15, 248, 165, 220, 143, 202, 148, 178>>,
    <<234, 253, 16, 35, 54, 73, 92, 111, 130, 149, 168, 187, 206, 225, 244, 7, 26, 45, 64, 83, 102, 121, 140, 159, 178, 197, 216, 235, 254, 17, 36, 55, 84, 117, 114, 110, 51, 135, 210, 3, 75, 208, 188, 154, 54, 157, 46, 202, 73, 53, 205, 118, 159, 68, 13, 200, 66, 242, 136, 54, 141, 128, 157, 94, 116, 157, 165, 66, 147>>,
    <<234, 253, 16, 35, 54, 73, 92, 111, 130, 149, 168, 187, 206, 225, 244, 7, 26, 45, 64, 83, 102, 121, 140, 159, 178, 197, 216, 235, 254, 17, 36, 55, 84, 117, 114, 110, 3, 133, 162, 74, 206, 164, 151, 162, 240, 91, 162, 27, 141, 255, 179, 76, 85, 45, 15, 173, 227, 246, 69, 222, 201, 62, 144, 79, 113, 24, 157, 3, 148>>,
    <<234, 253, 16, 35, 54, 73, 92, 111, 130, 149, 168, 187, 206, 225, 244, 7, 26, 45, 64, 83, 102, 121, 140, 159, 178, 197, 216, 235, 254, 17, 36, 55, 84, 117, 114, 110, 52, 125, 32, 208, 52, 94, 99, 245, 112, 37, 117, 101, 78, 228, 106, 96, 156, 203, 77, 198, 80, 117, 7, 232, 75, 83, 56, 202, 85, 142, 96, 170, 204>>,
    <<234, 253, 16, 35, 54, 73, 92, 111, 130, 149, 168, 187, 206, 225, 244, 7, 26, 45, 64, 83, 102, 121, 140, 159, 178, 197, 216, 235, 254, 17, 36, 55, 84, 117, 114, 110, 4, 146, 89, 194, 163, 149, 25, 175, 244, 124, 242, 2, 99, 194, 4, 12, 177, 139, 135, 199, 124, 124, 182, 168, 51, 141, 188, 140, 239, 17, 143, 10, 226>>,
    <<234, 253, 16, 35, 54, 73, 92, 111, 130, 149, 168, 187, 206, 225, 244, 7, 26, 45, 64, 83, 102, 121, 140, 159, 178, 197, 216, 235, 254, 17, 36, 55, 84, 117, 114, 110, 53, 6, 192, 199, 7, 43, 98, 161, 160, 147, 33, 194, 246, 17, 64, 60, 240, 95, 53, 106, 110, 118, 126, 57, 120, 206, 159, 46, 207, 251, 209, 69, 80>>,
    <<234, 253, 16, 35, 54, 73, 92, 111, 130, 149, 168, 187, 206, 225, 244, 7, 26, 45, 64, 83, 102, 121, 140, 159, 178, 197, 216, 235, 254, 17, 36, 55, 84, 117, 114, 110, 5, 227, 105, 56, 103, 108, 247, 126, 31, 5, 16, 82, 20, 245, 233, 116, 224, 135, 186, 194, 1, 173, 121, 134, 177, 217, 32, 165, 184, 130, 142, 224, 109>>,
    <<234, 253, 16, 35, 54, 73, 92, 111, 130, 149, 168, 187, 206, 225, 244, 7, 26, 45, 64, 83, 102, 121, 140, 159, 178, 197, 216, 235, 254, 17, 36, 55, 84, 117, 114, 110, 54, 78, 204, 157, 209, 148, 250, 73, 237, 17, 128, 214, 215, 74, 43, 57, 196, 254, 1, 39, 49, 250, 14, 3, 254, 87, 170, 19, 148, 49, 187, 195, 103>>,
    <<234, 253, 16, 35, 54, 73, 92, 111, 130, 149, 168, 187, 206, 225, 244, 7, 26, 45, 64, 83, 102, 121, 140, 159, 178, 197, 216, 235, 254, 17, 36, 55, 84, 117, 114, 110, 6, 90, 146, 153, 69, 108, 40, 94, 8, 183, 206, 57, 190, 1, 58, 21, 87, 199, 176, 176, 204, 85, 66, 208, 33, 149, 10, 110, 165, 15, 217, 20, 123>>,
    <<234, 253, 16, 35, 54, 73, 92, 111, 130, 149, 168, 187, 206, 225, 244, 7, 26, 45, 64, 83, 102, 121, 140, 159, 178, 197, 216, 235, 254, 17, 36, 55, 84, 117, 114, 110, 55, 183, 110, 155, 186, 247, 32, 129, 146, 125, 144, 183, 20, 64, 120, 194, 122, 123, 51, 50, 200, 160, 239, 14, 204, 254, 125, 181, 87, 200, 207, 118, 8>>,
    <<234, 253, 16, 35, 54, 73, 92, 111, 130, 149, 168, 187, 206, 225, 244, 7, 26, 45, 64, 83, 102, 121, 140, 159, 178, 197, 216, 235, 254, 17, 36, 55, 84, 117, 114, 110, 7, 141, 13, 17, 239, 122, 224, 22, 109, 176, 245, 147, 29, 216, 87, 231, 64, 74, 3, 154, 233, 240, 63, 162, 41, 231, 170, 34, 227, 119, 213, 201, 90>>,
    <<234, 253, 16, 35, 54, 73, 92, 111, 130, 149, 168, 187, 206, 225, 244, 7, 26, 45, 64, 83, 102, 121, 140, 159, 178, 197, 216, 235, 254, 17, 36, 55, 84, 117, 114, 110, 56, 184, 202, 13, 204, 251, 233, 83, 23, 148, 127, 146, 191, 129, 228, 1, 22, 117, 45, 91, 185, 235, 69, 147, 229, 53, 219, 77, 54, 51, 202, 133, 199>>,
    <<234, 253, 16, 35, 54, 73, 92, 111, 130, 149, 168, 187, 206, 225, 244, 7, 26, 45, 64, 83, 102, 121, 140, 159, 178, 197, 216, 235, 254, 17, 36, 55, 84, 117, 114, 110, 8, 90, 45, 6, 18, 28, 121, 142, 238, 228, 224, 177, 33, 191, 51, 108, 54, 30, 178, 213, 0, 197, 194, 13, 201, 54, 71, 48, 252, 166, 197, 61, 194>>,
    <<234, 253, 16, 35, 54, 73, 92, 111, 130, 149, 168, 187, 206, 225, 244, 7, 26, 45, 64, 83, 102, 121, 140, 159, 178, 197, 216, 235, 254, 17, 36, 55, 84, 117, 114, 110, 57, 66, 7, 31, 229, 20, 55, 242, 79, 71, 232, 82, 185, 98, 84, 4, 14, 214, 177, 34, 30, 230, 240, 31, 209, 187, 73, 26, 116, 104, 93, 74, 135>>,
    <<234, 253, 16, 35, 54, 73, 92, 111, 130, 149, 168, 187, 206, 225, 244, 7, 26, 45, 64, 83, 102, 121, 140, 159, 178, 197, 216, 235, 254, 17, 36, 55, 84, 117, 114, 110, 9, 234, 87, 254, 93, 129, 242, 92, 132, 157, 0, 52, 60, 157, 23, 231, 80, 54, 23, 123, 112, 203, 174, 61, 25, 73, 51, 228, 25, 243, 224, 167, 225>>,
    <<234, 253, 16, 35, 54, 73, 92, 111, 130, 149, 168, 187, 206, 225, 244, 7, 26, 45, 64, 83, 102, 121, 140, 159, 178, 197, 216, 235, 254, 17, 36, 55, 84, 117, 114, 110, 49, 48, 66, 28, 215, 20, 81, 244, 245, 71, 60, 1, 154, 241, 237, 77, 129, 41, 6, 128, 63, 5, 131, 204, 112, 167, 65, 95, 171, 64, 31, 135, 153, 67>>,
    <<234, 253, 16, 35, 54, 73, 92, 111, 130, 149, 168, 187, 206, 225, 244, 7, 26, 45, 64, 83, 102, 121, 140, 159, 178, 197, 216, 235, 254, 17, 36, 55, 84, 117, 114, 110, 10, 204, 254, 115, 158, 64, 151, 43, 216, 137, 18, 139, 5, 126, 104, 175, 248, 151, 217, 141, 187, 90, 62, 95, 153, 18, 31, 226, 66, 53, 245, 27, 108>>,
    <<234, 253, 16, 35, 54, 73, 92, 111, 130, 149, 168, 187, 206, 225, 244, 7, 26, 45, 64, 83, 102, 121, 140, 159, 178, 197, 216, 235, 254, 17, 36, 55, 84, 117, 114, 110, 49, 49, 214, 15, 73, 209, 118, 113, 244, 240, 9, 180, 51, 17, 12, 69, 164, 148, 80, 232, 106, 67, 1, 224, 40, 216, 131, 59, 119, 95, 131, 120, 228, 129>>,
    <<234, 253, 16, 35, 54, 73, 92, 111, 130, 149, 168, 187, 206, 225, 244, 7, 26, 45, 64, 83, 102, 121, 140, 159, 178, 197, 216, 235, 254, 17, 36, 55, 84, 117, 114, 110, 11, 34, 192, 23, 139, 233, 172, 189, 136, 21, 207, 35, 154, 206, 199, 129, 24, 63, 7, 243, 74, 149, 130, 136, 30, 236, 38, 70, 198, 92, 132, 82, 213>>,
    <<234, 253, 16, 35, 54, 73, 92, 111, 130, 149, 168, 187, 206, 225, 244, 7, 26, 45, 64, 83, 102, 121, 140, 159, 178, 197, 216, 235, 254, 17, 36, 55, 84, 117, 114, 110, 49, 50, 141, 89, 112, 97, 168, 118, 158, 90, 51, 212, 41, 61, 217, 56, 160, 135, 192, 56, 0, 246, 163, 123, 56, 145, 200, 9, 59, 83, 32, 107, 7, 118>>,
    <<234, 253, 16, 35, 54, 73, 92, 111, 130, 149, 168, 187, 206, 225, 244, 7, 26, 45, 64, 83, 102, 121, 140, 159, 178, 197, 216, 235, 254, 17, 36, 55, 84, 117, 114, 110, 12, 38, 225, 121, 253, 155, 166, 166, 45, 14, 227, 205, 199, 250, 230, 25, 6, 108, 4, 209, 48, 34, 201, 116, 41, 190, 39, 237, 76, 38, 80, 245, 24>>,
    <<234, 253, 16, 35, 54, 73, 92, 111, 130, 149, 168, 187, 206, 225, 244, 7, 26, 45, 64, 83, 102, 121, 140, 159, 178, 197, 216, 235, 254, 17, 36, 55, 84, 117, 114, 110, 49, 51, 202, 231, 225, 126, 253, 35, 158, 148, 183, 3, 222, 47, 224, 199, 101, 171, 174, 223, 224, 164, 161, 219, 77, 210, 126, 183, 34, 228, 46, 0, 120, 109>>,
    <<234, 253, 16, 35, 54, 73, 92, 111, 130, 149, 168, 187, 206, 225, 244, 7, 26, 45, 64, 83, 102, 121, 140, 159, 178, 197, 216, 235, 254, 17, 36, 55, 84, 117, 114, 110, 13, 182, 105, 86, 44, 203, 248, 171, 169, 160, 241, 37, 74, 43, 149, 16, 9, 249, 81, 216, 6, 124, 91, 166, 117, 159, 152, 96, 16, 9, 92, 133, 178>>,
    <<234, 253, 16, 35, 54, 73, 92, 111, 130, 149, 168, 187, 206, 225, 244, 7, 26, 45, 64, 83, 102, 121, 140, 159, 178, 197, 216, 235, 254, 17, 36, 55, 84, 117, 114, 110, 49, 52, 127, 3, 210, 206, 121, 180, 20, 104, 223, 225, 144, 177, 159, 165, 62, 221, 125, 105, 26, 45, 131, 204, 210, 190, 253, 141, 39, 114, 203, 31, 1, 116>>,
    <<234, 253, 16, 35, 54, 73, 92, 111, 130, 149, 168, 187, 206, 225, 244, 7, 26, 45, 64, 83, 102, 121, 140, 159, 178, 197, 216, 235, 254, 17, 36, 55, 84, 117, 114, 110, 14, 158, 66, 252, 234, 218, 137, 218, 93, 208, 140, 195, 62, 213, 29, 104, 47, 76, 230, 13, 35, 66, 235, 63, 44, 68, 211, 82, 55, 144, 223, 125, 194>>,
    <<135, 154, 173, 192, 211, 230, 249, 12, 31, 50, 69, 88, 107, 126, 145, 164, 183, 202, 221, 240, 3, 22, 41, 60, 79, 98, 117, 136, 155, 174, 193, 212, 84, 117, 114, 110, 49, 71, 186, 182, 202, 233, 136, 159, 134, 99, 117, 120, 47, 108, 4, 189, 201, 149, 123, 181, 248, 226, 233, 117, 234, 90, 128, 212, 54, 27, 55, 51, 37>>,
    <<135, 154, 173, 192, 211, 230, 249, 12, 31, 50, 69, 88, 107, 126, 145, 164, 183, 202, 221, 240, 3, 22, 41, 60, 79, 98, 117, 136, 155, 174, 193, 212, 84, 117, 114, 110, 1, 13, 101, 234, 200, 147, 19, 6, 136, 9, 107, 45, 255, 63, 105, 186, 100, 126, 145, 109, 226, 174, 69, 131, 199, 131, 240, 92, 65, 113, 237, 216, 69>>,
    <<135, 154, 173, 192, 211, 230, 249, 12, 31, 50, 69, 88, 107, 126, 145, 164, 183, 202, 221, 240, 3, 22, 41, 60, 79, 98, 117, 136, 155, 174, 193, 212, 84, 117, 114, 110, 50, 225, 216, 142, 137, 245, 49, 36, 217, 37, 21, 9, 194, 148, 237, 207, 31, 145, 233, 150, 107, 135, 103, 73, 26, 150, 79, 193, 188, 109, 61, 57, 16>>,
    <<135, 154, 173, 192, 211, 230, 249, 12, 31, 50, 69, 88, 107, 126, 145, 164, 183, 202, 221, 240, 3, 22, 41, 60, 79, 98, 117, 136, 155, 174, 193, 212, 84, 117, 114, 110, 2, 100, 65, 244, 198, 250, 86, 38, 138, 174, 20, 205, 191, 229, 149, 179, 15, 167, 169, 128, 166, 236, 52, 36, 140, 192, 122, 14, 30, 233, 112, 245, 210>>,
    <<135, 154, 173, 192, 211, 230, 249, 12, 31, 50, 69, 88, 107, 126, 145, 164, 183, 202, 221, 240, 3, 22, 41, 60, 79, 98, 117, 136, 155, 174, 193, 212, 84, 117, 114, 110, 51, 38, 170, 156, 124, 104, 144, 208, 25, 26, 91, 124, 212, 115, 172, 181, 155, 121, 181, 3, 85, 106, 89, 105, 255, 119, 148, 97, 202, 196, 197, 101, 77>>,
    <<135, 154, 173, 192, 211, 230, 249, 12, 31, 50, 69, 88, 107, 126, 145, 164, 183, 202, 221, 240, 3, 22, 41, 60, 79, 98, 117, 136, 155, 174, 193, 212, 84, 117, 114, 110, 3, 70, 192, 60, 246, 225, 249, 132, 71, 58, 90, 154, 55, 197, 181, 96, 96, 176, 250, 73, 28, 10, 41, 69, 21, 142, 207, 230, 92, 227, 185, 50, 198>>,
    <<135, 154, 173, 192, 211, 230, 249, 12, 31, 50, 69, 88, 107, 126, 145, 164, 183, 202, 221, 240, 3, 22, 41, 60, 79, 98, 117, 136, 155, 174, 193, 212, 84, 117, 114, 110, 52, 61, 206, 110, 223, 223, 199, 77, 88, 148, 32, 46, 20, 53, 69, 43, 247, 26, 0, 137, 32, 233, 60, 6, 3, 137, 201, 195, 9, 54, 54, 134, 225>>,
    <<135, 154, 173, 192, 211, 230, 249, 12, 31, 50, 69, 88, 107, 126, 145, 164, 183, 202, 221, 240, 3, 22, 41, 60, 79, 98, 117, 136, 155, 174, 193, 212, 84, 117, 114, 110, 4, 140, 152, 156, 29, 213, 200, 145, 200, 0, 131, 114, 69, 93, 240, 3, 87, 51, 234, 108, 63, 22, 243, 233, 82, 223, 191, 252, 230, 149, 186, 169, 48>>,
    <<135, 154, 173, 192, 211, 230, 249, 12, 31, 50, 69, 88, 107, 126, 145, 164, 183, 202, 221, 240, 3, 22, 41, 60, 79, 98, 117, 136, 155, 174, 193, 212, 84, 117, 114, 110, 53, 237, 212, 42, 183, 23, 32, 21, 140, 253, 230, 123, 33, 89, 139, 107, 44, 48, 252, 212, 167, 53, 137, 72, 14, 34, 165, 86, 167, 87, 83, 153, 67>>,
    <<135, 154, 173, 192, 211, 230, 249, 12, 31, 50, 69, 88, 107, 126, 145, 164, 183, 202, 221, 240, 3, 22, 41, 60, 79, 98, 117, 136, 155, 174, 193, 212, 84, 117, 114, 110, 5, 195, 203, 154, 51, 217, 42, 247, 208, 124, 228, 235, 235, 130, 252, 227, 67, 85, 179, 254, 147, 255, 12, 110, 62, 115, 236, 205, 149, 75, 56, 190, 113>>,
    <<135, 154, 173, 192, 211, 230, 249, 12, 31, 50, 69, 88, 107, 126, 145, 164, 183, 202, 221, 240, 3, 22, 41, 60, 79, 98, 117, 136, 155, 174, 193, 212, 84, 117, 114, 110, 54, 67, 192, 252, 11, 128, 234, 175, 170, 148, 207, 116, 76, 6, 177, 42, 19, 95, 18, 105, 212, 226, 72, 222, 153, 12, 225, 231, 64, 90, 126, 149, 183>>,
    <<135, 154, 173, 192, 211, 230, 249, 12, 31, 50, 69, 88, 107, 126, 145, 164, 183, 202, 221, 240, 3, 22, 41, 60, 79, 98, 117, 136, 155, 174, 193, 212, 84, 117, 114, 110, 6, 239, 101, 175, 66, 166, 152, 118, 95, 203, 251, 23, 7, 149, 140, 237, 9, 82, 199, 229, 53, 59, 206, 49, 223, 218, 55, 155, 37, 0, 4, 166, 239>>,
    <<135, 154, 173, 192, 211, 230, 249, 12, 31, 50, 69, 88, 107, 126, 145, 164, 183, 202, 221, 240, 3, 22, 41, 60, 79, 98, 117, 136, 155, 174, 193, 212, 84, 117, 114, 110, 55, 69, 196, 11, 110, 130, 79, 92, 176, 183, 185, 209, 15, 215, 207, 8, 47, 19, 122, 209, 170, 224, 95, 23, 212, 12, 178, 171, 138, 5, 146, 163, 42>>,
    <<135, 154, 173, 192, 211, 230, 249, 12, 31, 50, 69, 88, 107, 126, 145, 164, 183, 202, 221, 240, 3, 22, 41, 60, 79, 98, 117, 136, 155, 174, 193, 212, 84, 117, 114, 110, 7, 73, 122, 45, 150, 91, 223, 166, 3, 247, 205, 103, 91, 131, 202, 223, 132, 217, 214, 27, 109, 31, 185, 157, 184, 0, 164, 139, 90, 5, 43, 77, 198>>,
    <<135, 154, 173, 192, 211, 230, 249, 12, 31, 50, 69, 88, 107, 126, 145, 164, 183, 202, 221, 240, 3, 22, 41, 60, 79, 98, 117, 136, 155, 174, 193, 212, 84, 117, 114, 110, 56, 5, 151, 93, 157, 213, 232, 182, 47, 46, 81, 72, 33, 123, 229, 63, 58, 89, 87, 148, 131, 33, 249, 240, 35, 38, 213, 179, 167, 249, 181, 99, 38>>,
    <<135, 154, 173, 192, 211, 230, 249, 12, 31, 50, 69, 88, 107, 126, 145, 164, 183, 202, 221, 240, 3, 22, 41, 60, 79, 98, 117, 136, 155, 174, 193, 212, 84, 117, 114, 110, 8, 222, 105, 42, 12, 253, 99, 19, 129, 237, 245, 75, 99, 247, 5, 185, 187, 200, 158, 214, 71, 188, 134, 177, 223, 67, 242, 210, 59, 55, 5, 236, 96>>,
    <<135, 154, 173, 192, 211, 230, 249, 12, 31, 50, 69, 88, 107, 126, 145, 164, 183, 202, 221, 240, 3, 22, 41, 60, 79, 98, 117, 136, 155, 174, 193, 212, 84, 117, 114, 110, 57, 23, 14, 206, 234, 25, 47, 24, 93, 89, 231, 218, 50, 216, 70, 187, 88, 122, 106, 27, 97, 249, 33, 20, 99, 163, 62, 228, 161, 54, 114, 4, 137>>,
    <<135, 154, 173, 192, 211, 230, 249, 12, 31, 50, 69, 88, 107, 126, 145, 164, 183, 202, 221, 240, 3, 22, 41, 60, 79, 98, 117, 136, 155, 174, 193, 212, 84, 117, 114, 110, 9, 65, 34, 198, 78, 75, 62, 41, 238, 71, 2, 63, 193, 90, 248, 0, 149, 13, 20, 90, 239, 123, 30, 160, 231, 12, 194, 134, 182, 214, 69, 231, 152>>,
    <<135, 154, 173, 192, 211, 230, 249, 12, 31, 50, 69, 88, 107, 126, 145, 164, 183, 202, 221, 240, 3, 22, 41, 60, 79, 98, 117, 136, 155, 174, 193, 212, 84, 117, 114, 110, 49, 48, 150, 227, 51, 34, 52, 20, 4, 249, 34, 48, 109, 101, 205, 148, 60, 244, 62, 110, 118, 228, 204, 8, 97, 113, 162, 3, 206, 106, 167, 112, 43, 120>>,
    <<135, 154, 173, 192, 211, 230, 249, 12, 31, 50, 69, 88, 107, 126, 145, 164, 183, 202, 221, 240, 3, 22, 41, 60, 79, 98, 117, 136, 155, 174, 193, 212, 84, 117, 114, 110, 10, 190, 154, 132, 73, 43, 49, 56, 158, 84, 29, 83, 50, 114, 75, 81, 64, 149, 183, 104, 17, 135, 15, 249, 75, 83, 98, 31, 205, 242, 29, 123, 225>>,
    <<135, 154, 173, 192, 211, 230, 249, 12, 31, 50, 69, 88, 107, 126, 145, 164, 183, 202, 221, 240, 3, 22, 41, 60, 79, 98, 117, 136, 155, 174, 193, 212, 84, 117, 114, 110, 49, 49, 218, 224, 19, 241, 199, 244, 139, 208, 101, 230, 253, 171, 42, 85, 173, 83, 189, 38, 184, 208, 193, 125, 254, 246, 21, 227, 198, 235, 43, 26, 113, 65>>,
    <<135, 154, 173, 192, 211, 230, 249, 12, 31, 50, 69, 88, 107, 126, 145, 164, 183, 202, 221, 240, 3, 22, 41, 60, 79, 98, 117, 136, 155, 174, 193, 212, 84, 117, 114, 110, 11, 223, 102, 112, 77, 212, 55, 72, 251, 73, 84, 187, 11, 5, 7, 199, 169, 191, 137, 30, 96, 102, 148, 59, 179, 129, 77, 7, 25, 61, 135, 140, 10>>,
    <<135, 154, 173, 192, 211, 230, 249, 12, 31, 50, 69, 88, 107, 126, 145, 164, 183, 202, 221, 240, 3, 22, 41, 60, 79, 98, 117, 136, 155, 174, 193, 212, 84, 117, 114, 110, 49, 50, 134, 185, 112, 207, 65, 27, 52, 202, 2, 161, 95, 182, 22, 176, 187, 203, 31, 72, 100, 100, 20, 20, 24, 52, 189, 128, 111, 5, 158, 38, 62, 2>>,
    <<135, 154, 173, 192, 211, 230, 249, 12, 31, 50, 69, 88, 107, 126, 145, 164, 183, 202, 221, 240, 3, 22, 41, 60, 79, 98, 117, 136, 155, 174, 193, 212, 84, 117, 114, 110, 12, 225, 54, 245, 91, 197, 184, 201, 80, 97, 187, 169, 188, 78, 226, 91, 116, 216, 176, 23, 124, 77, 215, 227, 150, 75, 30, 214, 101, 22, 107, 16, 69>>,
    <<135, 154, 173, 192, 211, 230, 249, 12, 31, 50, 69, 88, 107, 126, 145, 164, 183, 202, 221, 240, 3, 22, 41, 60, 79, 98, 117, 136, 155, 174, 193, 212, 84, 117, 114, 110, 49, 51, 32, 196, 140, 229, 56, 216, 229, 221, 198, 223, 2, 12, 101, 142, 66, 134, 209, 157, 209, 5, 211, 205, 196, 55, 207, 116, 214, 218, 98, 200, 42, 6>>,
    <<135, 154, 173, 192, 211, 230, 249, 12, 31, 50, 69, 88, 107, 126, 145, 164, 183, 202, 221, 240, 3, 22, 41, 60, 79, 98, 117, 136, 155, 174, 193, 212, 84, 117, 114, 110, 13, 45, 173, 202, 152, 123, 193, 59, 82, 147, 141, 44, 125, 149, 243, 60, 109, 95, 231, 34, 190, 37, 61, 41, 215, 139, 189, 47, 12, 147, 131, 149, 108>>,
    <<135, 154, 173, 192, 211, 230, 249, 12, 31, 50, 69, 88, 107, 126, 145, 164, 183, 202, 221, 240, 3, 22, 41, 60, 79, 98, 117, 136, 155, 174, 193, 212, 84, 117, 114, 110, 49, 52, 27, 236, 28, 26, 238, 226, 166, 160, 175, 244, 127, 51, 175, 152, 134, 235, 245, 187, 79, 57, 48, 132, 236, 24, 66, 201, 67, 17, 218, 181, 20, 83>>,
    <<135, 154, 173, 192, 211, 230, 249, 12, 31, 50, 69, 88, 107, 126, 145, 164, 183, 202, 221, 240, 3, 22, 41, 60, 79, 98, 117, 136, 155, 174, 193, 212, 84, 117, 114, 110, 14, 93, 33, 209, 182, 43, 19, 131, 139, 49, 149, 247, 92, 147, 28, 62, 205, 0, 81, 80, 160, 22, 134, 147, 145, 161, 113, 59, 139, 11, 124, 243, 173>>,
    <<176, 195, 214, 233, 252, 15, 34, 53, 72, 91, 110, 129, 148, 167, 186, 205, 224, 243, 6, 25, 44, 63, 82, 101, 120, 139, 158, 177, 196, 215, 234, 253, 84, 117, 114, 110, 0, 116, 171, 136, 94, 237, 233, 106, 79, 35, 179, 235, 5, 241, 140, 84, 196, 34, 74, 110, 108, 214, 69, 242, 222, 140, 71, 196, 188, 137, 145, 6, 18>>,
    <<77, 96, 115, 134, 153, 172, 191, 210, 229, 248, 11, 30, 49, 68, 87, 106, 125, 144, 163, 182, 201, 220, 239, 2, 21, 40, 59, 78, 97, 116, 135, 154, 84, 117, 114, 110, 0, 126, 1, 243, 31, 52, 178, 177, 132, 160, 65, 197, 212, 127, 66, 163, 50, 192, 192, 20, 236, 175, 233, 132, 240, 116, 66, 148, 19, 231, 104, 229, 217>>,
    <<234, 253, 16, 35, 54, 73, 92, 111, 130, 149, 168, 187, 206, 225, 244, 7, 26, 45, 64, 83, 102, 121, 140, 159, 178, 197, 216, 235, 254, 17, 36, 55, 84, 117, 114, 110, 0, 201, 218, 83, 41, 81, 25, 171, 2, 143, 220, 167, 107, 179, 252, 132, 130, 138, 53, 200, 62, 216, 59, 85, 9, 68, 160, 244, 202, 189, 193, 214, 196>>,
    <<135, 154, 173, 192, 211, 230, 249, 12, 31, 50, 69, 88, 107, 126, 145, 164, 183, 202, 221, 240, 3, 22, 41, 60, 79, 98, 117, 136, 155, 174, 193, 212, 84, 117, 114, 110, 0, 240, 130, 4, 220, 140, 254, 193, 41, 245, 16, 228, 218, 93, 144, 93, 162, 116, 202, 94, 133, 95, 206, 19, 122, 174, 251, 167, 212, 130, 79, 160, 59>>
    >>

\* The digest the table holds for a preimage.
DigestIn(table, bytes) ==
    LET row == CHOOSE r \in 1..Len(table) :
                   SubSeq(table[r], 1, Len(table[r]) - 32) = bytes
    IN  SubSeq(table[row], Len(table[row]) - 31, Len(table[row]))

keccak256(bytes) ==
    CHOOSE digest \in {DigestIn(table, bytes) : table \in {KeccakDigests}} : TRUE

(***************************************************************************)
(* gameState.ts: packet constants.                                         *)
(***************************************************************************)
PacketTypes == {"MISS", "ATTACK", "DEFEND", "CRIT", "HEAL"}
Rarities == {"COMMON", "RARE", "LEGENDARY"}
Anomalies == {"STABLE", "ION_STORM", "DATA_LEAK", "OVERCLOCK"}

PACKET_THRESHOLDS ==
    [MISS |-> [min |-> 0, max |-> 19],
     ATTACK |-> [min |-> 20, max |-> 150],
     DEFEND |-> [min |-> 151, max |-> 200],
     CRIT |-> [min |-> 201, max |-> 240],
     HEAL |-> [min |-> 241, max |-> 255]]

PACKET_VALUES == [MISS |-> 0, ATTACK |-> 5, DEFEND |-> 5, CRIT |-> 15, HEAL |-> 10]

(***************************************************************************)
(* vrfMapper.ts: the client's hand derivation.                             *)
(***************************************************************************)
\* The result of a call that threw.
Threw == [threw |-> TRUE]

\* A variant that compares with < where the code compares with <=.
mapByteToPacketType_strict(byte) ==
    IF byte < PACKET_THRESHOLDS.MISS.max THEN "MISS"
    ELSE IF byte < PACKET_THRESHOLDS.ATTACK.max THEN "ATTACK"
    ELSE IF byte < PACKET_THRESHOLDS.DEFEND.max THEN "DEFEND"
    ELSE IF byte < PACKET_THRESHOLDS.CRIT.max THEN "CRIT"
    ELSE "HEAL"

mapByteToPacketType(byte) ==
    IF byte <= PACKET_THRESHOLDS.MISS.max THEN "MISS"
    ELSE IF byte <= PACKET_THRESHOLDS.ATTACK.max THEN "ATTACK"
    ELSE IF byte <= PACKET_THRESHOLDS.DEFEND.max THEN "DEFEND"
    ELSE IF byte <= PACKET_THRESHOLDS.CRIT.max THEN "CRIT"
    ELSE "HEAL"

\* Packet ids are `packet-${index}`: the index stands for the id.
mapByteToPacket(byte, index, rarityByte) ==
    LET type == mapByteToPacketType(byte)
    IN  [id |-> index,
         byteValue |-> byte,
         type |-> type,
         rarity |-> IF rarityByte > 240 THEN "LEGENDARY"
                    ELSE IF rarityByte > 200 THEN "RARE"
                    ELSE "COMMON",
         value |-> PACKET_VALUES[type]]

\* calculatePacketCount throws for turn < 1 and returns 5 + (turn % 3) otherwise.
calculatePacketCountThrows(turn) == turn < 1
\* A variant whose period starts one turn late.
calculatePacketCount_late(turn) == 5 + ((turn - 1) % 3)
calculatePacketCount(turn) == 5 + (turn % 3)

\* The byte string the client hashes for a turn.
TurnSeedPreimage(levelSeed, turn) ==
    toBytes(levelSeed) \o TurnLiteral \o DecimalDigits(turn)

deriveTurnSeed(levelSeed, turn) == keccak256(TurnSeedPreimage(levelSeed, turn))

\* seedBytes[k] of the source is sub[k + 1] here.
AnomalyOfByte(anomalyByte) ==
    IF anomalyByte <= 30 THEN "ION_STORM"
    ELSE IF anomalyByte <= 60 THEN "DATA_LEAK"
    ELSE IF anomalyByte <= 90 THEN "OVERCLOCK"
    ELSE "STABLE"

TypeByteIndex(i) == (i * 2) % 32
RarityByteIndex(i) == (i * 2 + 1) % 32

derivePacketsFromSeed(levelSeed, turn) ==
    LET packetCount == calculatePacketCount(turn)
        seedBytes == deriveTurnSeed(levelSeed, turn)
    IN  IF calculatePacketCountThrows(turn) THEN Threw
        ELSE [threw |-> FALSE,
              packets |-> [k \in 1..packetCount |->
                            mapByteToPacket(seedBytes[TypeByteIndex(k - 1) + 1], k - 1,
                                            seedBytes[RarityByteIndex(k - 1) + 1])],
              anomaly |-> AnomalyOfByte(seedBytes[12 + 1]),
              jackpotHit |-> seedBytes[31 + 1] >= 250]

(***************************************************************************)
(* TurnVerifier.sol: the on-chain hand derivation.                         *)
(***************************************************************************)
THRESHOLD_MISS == 19
THRESHOLD_ATTACK == 150
THRESHOLD_DEFEND == 200
THRESHOLD_CRIT == 240

V_mapByteToPacketType(byteValue) ==
    IF byteValue <= THRESHOLD_MISS THEN "MISS"
    ELSE IF byteValue <= THRESHOLD_ATTACK THEN "ATTACK"
    ELSE IF byteValue <= THRESHOLD_DEFEND THEN "DEFEND"
    ELSE IF byteValue <= THRESHOLD_CRIT THEN "CRIT"
    ELSE "HEAL"

V_getPacketValue(pType) ==
    CASE pType = "MISS" -> 0
      [] pType = "ATTACK" -> 5
      [] pType = "DEFEND" -> 5
      [] pType = "CRIT" -> 15
      [] pType = "HEAL" -> 10

\* uint8 arithmetic: turn % 3 is at most 2, so 5 + (turn % 3) cannot overflow.
V_calculatePacketCount(turn) == 5 + (turn % 3)

\* calculatePacketCount and deriveHand hold no require, and 5 + (turn % 3) is at
\* most 7: neither reverts for any uint8 turn.
V_deriveHandReverts(turn) == FALSE

\* abi.encodePacked(bytes32, "Turn", uint8): the uint8 is packed as one raw byte.
V_TurnSeedPreimage(levelSeed, turn) ==
    levelSeed \o TurnLiteral \o <<turn % 256>>

V_deriveTurnSeed(levelSeed, turn) == keccak256(V_TurnSeedPreimage(levelSeed, turn))

V_ByteIndex(i) == i % 32

V_deriveHand(levelSeed, turn) ==
    LET packetCount == V_calculatePacketCount(turn)
        turnSeed == V_deriveTurnSeed(levelSeed, turn)
    IN  [k \in 1..packetCount |->
            LET byteValue == turnSeed[V_ByteIndex(k - 1) + 1]
                pType == V_mapByteToPacketType(byteValue)
            IN  [byteValue |-> byteValue, packetType |-> pType,
                 value |-> V_getPacketValue(pType)]]

(***************************************************************************)
(* turnResolver.ts: the client engine.  A GameState is a record            *)
(*   [status, levelSeed, turnCounter, levelId, player, enemies,            *)
(*    dataStream, assignments, score, anomaly, jackpotHit]                 *)
(* with player = [hp, maxHp, shield] and each enemy                        *)
(*   [id, hp, maxHp, type, intent, damage].                                *)
(* Objects live in a heap (a sequence of GameState values indexed by       *)
(* reference), so that a write through one reference is seen through every *)
(* alias of it.                                                            *)
(***************************************************************************)
\* JSON.parse(JSON.stringify(state)): a new object holding a deep copy.
\* A variant that hands back the object it was given instead of a copy.
cloneState_aliased(heap, state) == [heap |-> heap, ref |-> state]

cloneState(heap, state) == [heap |-> Append(heap, heap[state]), ref |-> Len(heap) + 1]

\* Array.prototype.find / findIndex: the first index whose id matches, 0 for none.
FindById(items, id) ==
    IF \E i \in DOMAIN items : items[i].id = id
    THEN CHOOSE i \in DOMAIN items :
            /\ items[i].id = id
            /\ \A j \in DOMAIN items : items[j].id = id => i <= j
    ELSE 0

\* Damage taken from hp alone, the shield left as it was.
applyDamageToPlayer_unshielded(player, damage) ==
    [player EXCEPT !.hp = Max(0, @ - damage)]

applyDamageToPlayer(player, damage) ==
    LET shieldAbsorbed == IF player.shield > 0 THEN Min(player.shield, damage) ELSE 0
        remainingDamage == damage - shieldAbsorbed
    IN  [player EXCEPT
            !.shield = @ - shieldAbsorbed,
            !.hp = IF remainingDamage > 0 THEN Max(0, @ - remainingDamage) ELSE @]

\* A variant that gives the OVERCLOCK bonus to every kind of packet.
effectiveValueOf_anyKind(state, packet) ==
    LET byRarity == IF packet.rarity = "RARE" THEN (packet.value * 3) \div 2
                    ELSE IF packet.rarity = "LEGENDARY" THEN packet.value * 2
                    ELSE packet.value
    IN  IF state.anomaly = "OVERCLOCK" THEN byRarity + 5 ELSE byRarity

effectiveValueOf(state, packet) ==
    LET byRarity == IF packet.rarity = "RARE" THEN (packet.value * 3) \div 2
                    ELSE IF packet.rarity = "LEGENDARY" THEN packet.value * 2
                    ELSE packet.value
    IN  IF state.anomaly = "OVERCLOCK" /\ packet.type = "ATTACK"
        THEN byRarity + 5 ELSE byRarity

\* Whether applyPacketEffect throws `Invalid target`.
applyPacketEffectThrows(state, packet, targetId) ==
    /\ targetId # "trash"
    /\ targetId # "player"
    /\ FindById(state.enemies, targetId) = 0

\* A variant in which a discarded packet acts on the player.
applyPacketEffect_trashActs(state, packet, targetId) ==
    LET effectiveValue == effectiveValueOf(state, packet)
        e == FindById(state.enemies, targetId)
    IN  IF targetId = "trash" /\ packet.type = "MISS" THEN state
        ELSE IF targetId \in {"player", "trash"} THEN
            CASE packet.type = "HEAL" ->
                    [state EXCEPT !.player.hp =
                        Min(@ + effectiveValue, state.player.maxHp)]
              [] packet.type = "DEFEND" ->
                    [state EXCEPT !.player.shield = @ + effectiveValue]
              [] packet.type \in {"ATTACK", "CRIT"} ->
                    [state EXCEPT !.player = applyDamageToPlayer(@, effectiveValue)]
              [] OTHER -> state
        ELSE IF e = 0 THEN state
        ELSE IF state.enemies[e].type = "CACHE_GOLD" THEN
            IF packet.type = "CRIT" THEN [state EXCEPT !.enemies[e].hp = 0] ELSE state
        ELSE IF packet.type \in {"ATTACK", "CRIT"} THEN
            [state EXCEPT !.enemies[e].hp = Max(0, @ - effectiveValue)]
        ELSE state

\* The state applyPacketEffect leaves (it mutates its argument in place).
applyPacketEffect(state, packet, targetId) ==
    LET effectiveValue == effectiveValueOf(state, packet)
        e == FindById(state.enemies, targetId)
    IN  IF targetId = "trash" THEN state
        ELSE IF targetId = "player" THEN
            CASE packet.type = "HEAL" ->
                    [state EXCEPT !.player.hp =
                        Min(@ + effectiveValue, state.player.maxHp)]
              [] packet.type = "DEFEND" ->
                    [state EXCEPT !.player.shield = @ + effectiveValue]
              [] packet.type \in {"ATTACK", "CRIT"} ->
                    [state EXCEPT !.player = applyDamageToPlayer(@, effectiveValue)]
              [] OTHER -> state
        ELSE IF e = 0 THEN state
        ELSE IF state.enemies[e].type = "CACHE_GOLD" THEN
            IF packet.type = "CRIT" THEN [state EXCEPT !.enemies[e].hp = 0] ELSE state
        ELSE IF packet.type \in {"ATTACK", "CRIT"} THEN
            [state EXCEPT !.enemies[e].hp = Max(0, @ - effectiveValue)]
        ELSE state

RECURSIVE EnemyPhaseFrom(_, _)
EnemyPhaseFrom(player, livingEnemies) ==
    IF livingEnemies = <<>> THEN player
    ELSE EnemyPhaseFrom(
            IF Head(livingEnemies).intent = "ATTACK"
            THEN applyDamageToPlayer(player, Head(livingEnemies).damage)
            ELSE player,
            Tail(livingEnemies))

RECURSIVE FilterAlive(_)
\* enemies.filter((e) => e.hp > 0)
FilterAlive(enemies) ==
    IF enemies = <<>> THEN <<>>
    ELSE IF Head(enemies).hp > 0 THEN <<Head(enemies)>> \o FilterAlive(Tail(enemies))
         ELSE FilterAlive(Tail(enemies))

\* A variant in which every living enemy strikes, whatever its intent.
executeEnemyPhase_anyIntent(state) ==
    [state EXCEPT !.player =
        EnemyPhaseFrom(@, [i \in DOMAIN FilterAlive(state.enemies) |->
                              [FilterAlive(state.enemies)[i] EXCEPT !.intent = "ATTACK"]])]

executeEnemyPhase(state) ==
    [state EXCEPT !.player = EnemyPhaseFrom(@, FilterAlive(state.enemies))]

\* A variant that leaves the dead in the list.
removeDeadEnemies_keeping(state) == state

removeDeadEnemies(state) == [state EXCEPT !.enemies = FilterAlive(@)]

\* A variant that looks at the enemies before it looks at the player.
checkTurnResult_enemiesFirst(state) ==
    IF \A i \in DOMAIN state.enemies : state.enemies[i].hp <= 0 THEN "VICTORY"
    ELSE IF state.player.hp <= 0 THEN "DEFEAT"
    ELSE "CONTINUE"

checkTurnResult(state) ==
    IF state.player.hp <= 0 THEN "DEFEAT"
    ELSE IF Len(state.enemies) = 0 \/ \A i \in DOMAIN state.enemies : state.enemies[i].hp <= 0
         THEN "VICTORY"
    ELSE "CONTINUE"

\* Whether validateAssignments accepts (it throws otherwise).
validateAssignments(state, assignments) ==
    LET packetIds == {state.dataStream[i].id : i \in DOMAIN state.dataStream}
        assignedPackets == {assignments[i].packetId : i \in DOMAIN assignments}
    IN  /\ \A i \in DOMAIN assignments :
            /\ assignments[i].packetId \in packetIds
            /\ \A j \in 1..(i - 1) : assignments[j].packetId # assignments[i].packetId
            /\ \/ assignments[i].targetId = "player"
               \/ assignments[i].targetId = "trash"
               \/ \E e \in DOMAIN state.enemies :
                    state.enemies[e].id = assignments[i].targetId
        /\ Cardinality(assignedPackets) = Cardinality(packetIds)

RECURSIVE ApplyAssignments(_, _)
\* The loop of step 3: each assignment's packet applied in list order.
\* A step that throws leaves [threw |-> TRUE].
ApplyAssignments(state, assignments) ==
    IF assignments = <<>> THEN [threw |-> FALSE, state |-> state]
    ELSE LET a == Head(assignments)
             p == FindById(state.dataStream, a.packetId)
         IN  IF p = 0 THEN Threw
             ELSE IF applyPacketEffectThrows(state, state.dataStream[p], a.targetId)
                  THEN Threw
             ELSE ApplyAssignments(
                    applyPacketEffect(state, state.dataStream[p], a.targetId),
                    Tail(assignments))

RECURSIVE KillScore(_, _)
\* The loop of step 4: the points for the enemies alive in currentState and dead now.
KillScore(enemies, originalEnemies) ==
    IF enemies = <<>> THEN 0
    ELSE LET enemy == Head(enemies)
             o == FindById(originalEnemies, enemy.id)
         IN  (IF o # 0 /\ originalEnemies[o].hp > 0 /\ enemy.hp <= 0
              THEN 100 + (IF enemy.type = "CACHE_GOLD" THEN 1000 ELSE 0)
              ELSE 0)
             + KillScore(Tail(enemies), originalEnemies)

StartOfTurn(state) ==
    LET afterJackpot == IF state.jackpotHit
                        THEN [state EXCEPT !.score = @ + 5000, !.jackpotHit = FALSE]
                        ELSE state
    IN  IF afterJackpot.anomaly = "DATA_LEAK"
        THEN [afterJackpot EXCEPT !.player.hp = Min(@ + 5, afterJackpot.player.maxHp)]
        ELSE afterJackpot

EndOfTurnAnomaly(state) ==
    IF state.anomaly = "ION_STORM"
    THEN removeDeadEnemies(
            [state EXCEPT
                !.player = applyDamageToPlayer(@, 5),
                !.enemies = [i \in DOMAIN state.enemies |->
                                IF state.enemies[i].hp > 0
                                THEN [state.enemies[i] EXCEPT !.hp = Max(0, @ - 5)]
                                ELSE state.enemies[i]]])
    ELSE state

\* A variant that moves the turn counter on by two.
FinishTurn_skipping(state) ==
    LET cleared == [state EXCEPT !.assignments = <<>>, !.dataStream = <<>>,
                                 !.turnCounter = @ + 2]
    IN  [cleared EXCEPT !.status = IF checkTurnResult(cleared) = "CONTINUE"
                                   THEN "WAITING_FOR_VRF" ELSE "RESOLVED"]

\* A variant that adds the flawless 200 to every VICTORY.
FinishTurn_alwaysFlawless(state) ==
    LET cleared == [state EXCEPT !.assignments = <<>>, !.dataStream = <<>>,
                                 !.turnCounter = @ + 1]
        result == checkTurnResult(cleared)
    IN  IF result \in {"VICTORY", "DEFEAT"}
        THEN [cleared EXCEPT
                !.status = "RESOLVED",
                !.score = IF result = "VICTORY" THEN @ + 700 ELSE @]
        ELSE [cleared EXCEPT !.status = "WAITING_FOR_VRF"]

FinishTurn(state) ==
    LET cleared == [state EXCEPT !.assignments = <<>>, !.dataStream = <<>>,
                                 !.turnCounter = @ + 1]
        result == checkTurnResult(cleared)
    IN  IF result \in {"VICTORY", "DEFEAT"}
        THEN [cleared EXCEPT
                !.status = "RESOLVED",
                !.score = IF result = "VICTORY"
                          THEN @ + 500 + (IF cleared.player.hp = cleared.player.maxHp
                                          THEN 200 ELSE 0)
                          ELSE @]
        ELSE [cleared EXCEPT !.status = "WAITING_FOR_VRF"]

\* resolveTurn(currentState, assignments) on the heap: currentState is a reference.
\* The result is [threw, heap, ref]: the heap the call leaves and, when it did not
\* throw, the reference it returns.
resolveTurn(heap, currentState, assignments) ==
    LET c == cloneState(heap, currentState)
        nextState == c.ref
        h1 == [c.heap EXCEPT ![nextState] = StartOfTurn(@)]
        applied == ApplyAssignments(h1[nextState], assignments)
    IN  IF ~validateAssignments(h1[nextState], assignments)
        THEN [threw |-> TRUE, heap |-> h1, ref |-> 0]
        ELSE IF applied.threw THEN [threw |-> TRUE, heap |-> h1, ref |-> 0]
        ELSE LET h3 == [h1 EXCEPT ![nextState] = applied.state]
                 h4 == [h3 EXCEPT ![nextState] =
                            removeDeadEnemies(
                                [@ EXCEPT !.score =
                                    @ + KillScore(h3[nextState].enemies,
                                                  h3[currentState].enemies)])]
                 h5 == [h4 EXCEPT ![nextState] =
                            FinishTurn(EndOfTurnAnomaly(executeEnemyPhase(@)))]
             IN  [threw |-> FALSE, heap |-> h5, ref |-> nextState]

(***************************************************************************)
(* TurnVerifier.sol: the on-chain resolver.  Player = [hp, maxHp, shield]  *)
(* (uint16), Enemy = [id, hp, maxHp, damage, isAttacking, isCache],        *)
(* Assignment = [packetIndex, targetType] with targetType 0 = trash,       *)
(* 1 = player, 2 + k = enemies[k].  A call that reverts leaves Reverted.   *)
(***************************************************************************)
UINT16_MAX == 65535
Reverted == [reverted |-> TRUE]

\* [reverted, player]: checked uint16 arithmetic reverts on overflow.
V_applyPacketToPlayer(player, packet) ==
    IF packet.packetType = "HEAL" THEN
        LET newHp == player.hp + packet.value
        IN  IF newHp > UINT16_MAX THEN Reverted
            ELSE [reverted |-> FALSE,
                  player |-> [player EXCEPT !.hp = IF newHp > player.maxHp
                                                   THEN player.maxHp ELSE newHp]]
    ELSE IF packet.packetType = "DEFEND" THEN
        IF player.shield + packet.value > UINT16_MAX THEN Reverted
        ELSE [reverted |-> FALSE, player |-> [player EXCEPT !.shield = @ + packet.value]]
    ELSE [reverted |-> FALSE, player |-> player]

V_applyPacketToEnemy(enemy, packet) ==
    IF enemy.isCache THEN
        IF packet.packetType = "CRIT" THEN [enemy EXCEPT !.hp = 0] ELSE enemy
    ELSE IF packet.packetType \in {"ATTACK", "CRIT"} THEN
        IF enemy.hp > packet.value THEN [enemy EXCEPT !.hp = @ - packet.value]
        ELSE [enemy EXCEPT !.hp = 0]
    ELSE enemy

V_applyDamageToPlayer(player, damage) ==
    IF player.shield > 0 /\ player.shield >= damage
    THEN [player EXCEPT !.shield = @ - damage]
    ELSE LET remainingDamage == IF player.shield > 0 THEN damage - player.shield
                                ELSE damage
         IN  [player EXCEPT
                !.shield = IF player.shield > 0 THEN 0 ELSE @,
                !.hp = IF @ > remainingDamage THEN @ - remainingDamage ELSE 0]

RECURSIVE V_EnemyPhaseFrom(_, _)
V_EnemyPhaseFrom(player, enemies) ==
    IF enemies = <<>> THEN player
    ELSE V_EnemyPhaseFrom(
            IF Head(enemies).hp > 0 /\ Head(enemies).isAttacking
            THEN V_applyDamageToPlayer(player, Head(enemies).damage)
            ELSE player,
            Tail(enemies))

V_executeEnemyPhase(player, enemies) == V_EnemyPhaseFrom(player, enemies)

V_checkTurnResult(player, enemies) ==
    IF player.hp = 0 THEN "DEFEAT"
    ELSE IF \A i \in DOMAIN enemies : ~(enemies[i].hp > 0) THEN "VICTORY"
    ELSE "CONTINUE"

RECURSIVE V_ApplyAssignments(_, _, _, _)
\* Phase 1: [reverted, player, enemies] after the assignments, applied in list order.
V_ApplyAssignments(hand, player, enemies, assignments) ==
    IF assignments = <<>>
    THEN [reverted |-> FALSE, player |-> player, enemies |-> enemies]
    ELSE LET a == Head(assignments)
             rest == Tail(assignments)
         IN  IF a.packetIndex >= Len(hand) THEN Reverted        \* array index out of bounds
             ELSE LET packet == hand[a.packetIndex + 1]
                  IN  IF a.targetType = 0
                      THEN V_ApplyAssignments(hand, player, enemies, rest)
                      ELSE IF a.targetType = 1 THEN
                          LET r == V_applyPacketToPlayer(player, packet)
                          IN  IF r.reverted THEN Reverted
                              ELSE V_ApplyAssignments(hand, r.player, enemies, rest)
                      ELSE LET enemyIndex == a.targetType - 2
                           IN  IF ~(enemyIndex < Len(enemies)) THEN Reverted
                               ELSE V_ApplyAssignments(hand, player,
                                        [enemies EXCEPT ![enemyIndex + 1] =
                                            V_applyPacketToEnemy(@, packet)],
                                        rest)

\* What initialEnemies holds when the score loop reads it.  newEnemies[i] =
\* initialEnemies[i] assigns a memory struct to a memory slot, which copies the
\* reference: both arrays point at the same structs, and applyPacketToEnemy
\* writes through them.
V_InitialEnemiesAtScoring(initialEnemies, newEnemies) == newEnemies

RECURSIVE V_KillScore(_, _, _)
V_KillScore(initialEnemies, newEnemies, i) ==
    IF i > Len(newEnemies) THEN 0
    ELSE (IF initialEnemies[i].hp > 0 /\ newEnemies[i].hp = 0
          THEN 100 + (IF newEnemies[i].isCache THEN 1000 ELSE 0)
          ELSE 0)
         + V_KillScore(initialEnemies, newEnemies, i + 1)

\* [reverted, newPlayer, newEnemies, result, newScore]
V_resolveTurn(levelSeed, initialPlayer, initialEnemies, turn, assignments, initialScore) ==
    LET hand == V_deriveHand(levelSeed, turn)
        applied == V_ApplyAssignments(hand, initialPlayer, initialEnemies, assignments)
    IN  IF Len(assignments) # Len(hand) THEN Reverted
        ELSE IF applied.reverted THEN Reverted
        ELSE LET newEnemies == applied.enemies
                 scored == initialScore
                    + V_KillScore(V_InitialEnemiesAtScoring(initialEnemies, newEnemies),
                                  newEnemies, 1)
                 first == V_checkTurnResult(applied.player, newEnemies)
                 newPlayer == IF first = "CONTINUE"
                              THEN V_executeEnemyPhase(applied.player, newEnemies)
                              ELSE applied.player
                 result == IF first = "CONTINUE"
                           THEN V_checkTurnResult(newPlayer, newEnemies)
                           ELSE first
             IN  [reverted |-> FALSE,
                  newPlayer |-> newPlayer,
                  newEnemies |-> newEnemies,
                  result |-> result,
                  newScore |-> IF result = "VICTORY"
                               THEN scored + 500
                                    + (IF newPlayer.hp = newPlayer.maxHp THEN 200 ELSE 0)
                               ELSE scored]

(***************************************************************************)
(* Inputs.                                                                 *)
(***************************************************************************)
NoState == [status |-> "NONE"]
NoCall == [made |-> FALSE]
NoProbe == [fn |-> "none"]
NoSeed == <<>>

\* The store as create() builds it (gameState is null), and a chain with no game.
IdleStore == [currentLevelSeed |-> NoSeed, gameResult |-> "null", packetQueue |-> <<>>,
              isExecuting |-> FALSE, pendingAssignments |-> <<>>, moveHistory |-> <<>>]

Addresses == {"alice", "bob"}
Starters == {"alice"}   \* the addresses that start games
ENTROPY == "entropy"

IdleChain == [gameCounter |-> 0, games |-> <<>>,
              activeGameId |-> [a \in Addresses |-> 0],
              sequenceToGameId |-> <<>>]

InitialPlayers ==
    {[hp |-> 100, maxHp |-> 100, shield |-> 0],
     [hp |-> 6, maxHp |-> 100, shield |-> 3]}

InitialEnemies ==
    {<<[id |-> "enemy-0", hp |-> 5, maxHp |-> 15, type |-> "drone",
        intent |-> "ATTACK", damage |-> 3],
       [id |-> "cache-gold", hp |-> 1, maxHp |-> 1, type |-> "CACHE_GOLD",
        intent |-> "IDLE", damage |-> 0]>>,
     <<[id |-> "enemy-0", hp |-> 20, maxHp |-> 20, type |-> "firewall",
        intent |-> "ATTACK", damage |-> 5],
       [id |-> "enemy-1", hp |-> 7, maxHp |-> 30, type |-> "sentinel",
        intent |-> "DEFEND", damage |-> 8]>>}

\* A PLANNING state dealt the hand of the turn after its own.
PlanningState_nextHand(levelSeed, turn, player, enemies, score) ==
    LET d == derivePacketsFromSeed(levelSeed, turn + 1)
    IN  [status |-> "PLANNING", levelSeed |-> levelSeed, turnCounter |-> turn,
         levelId |-> 1, player |-> player, enemies |-> enemies,
         dataStream |-> d.packets, assignments |-> <<>>, score |-> score,
         anomaly |-> d.anomaly, jackpotHit |-> d.jackpotHit]

\* A PLANNING state holding the hand of its turn, as startGame and generateNewHand
\* build it.
PlanningState(levelSeed, turn, player, enemies, score) ==
    LET d == derivePacketsFromSeed(levelSeed, turn)
    IN  [status |-> "PLANNING", levelSeed |-> levelSeed, turnCounter |-> turn,
         levelId |-> 1, player |-> player, enemies |-> enemies,
         dataStream |-> d.packets, assignments |-> <<>>, score |-> score,
         anomaly |-> d.anomaly, jackpotHit |-> d.jackpotHit]

EnemyIds(state) == {state.enemies[i].id : i \in DOMAIN state.enemies}

\* Every packet of the hand once, in hand order, to the target f gives it (trash
\* where f gives none).
ListFor(state, f) ==
    [k \in DOMAIN state.dataStream |->
        [packetId |-> state.dataStream[k].id,
         targetId |-> IF k \in DOMAIN f THEN f[k] ELSE "trash"]]

\* The valid lists tested: at most MaxTargeted packets aimed at the player or an enemy.
TargetedLists(state) ==
    LET aimed == {P \in SUBSET (DOMAIN state.dataStream) : Cardinality(P) <= MaxTargeted}
        targets == {"player"} \cup EnemyIds(state)
    IN  {ListFor(state, f) : f \in UNION {[P -> targets] : P \in aimed}}

\* Lists validation has to refuse, built from the all-trash list.
InvalidLists(state) ==
    LET all == ListFor(state, <<>>)
        n == Len(all)
    IN  IF n < 2 THEN {}
        ELSE {SubSeq(all, 1, n - 1),                                \* a packet missing
              [all EXCEPT ![2].packetId = all[1].packetId],         \* one twice, one missing
              Append(all, all[1]),                                  \* one twice, none missing
              [all EXCEPT ![1].packetId = 99],                      \* unknown packet
              Append(all, [packetId |-> 99, targetId |-> "trash"]), \* all, and an unknown one
              [all EXCEPT ![1].targetId = "invalid-target"],        \* unknown target
              [all EXCEPT ![n].targetId = "enemy-9"]}               \* no such enemy

TestedLists(state) == TargetedLists(state) \cup InvalidLists(state)

\* The plays of a session: discard everything, aim every packet at the player, or
\* send ATTACK, CRIT and MISS to one enemy and HEAL and DEFEND to the player.
PlayTargets(state, e) ==
    [k \in DOMAIN state.dataStream |->
        IF state.dataStream[k].type \in {"HEAL", "DEFEND"} THEN "player" ELSE e]

PlayedLists(state) ==
    {ListFor(state, <<>>),
     ListFor(state, [k \in DOMAIN state.dataStream |-> "player"])}
    \cup {ListFor(state, PlayTargets(state, e)) : e \in EnemyIds(state)}

(***************************************************************************)
(* The same inputs as the verifier takes them.                             *)
(***************************************************************************)
ToVerifierPlayer(player) == [hp |-> player.hp, maxHp |-> player.maxHp,
                             shield |-> player.shield]

ToVerifierEnemies(enemies) ==
    [i \in DOMAIN enemies |->
        [id |-> i - 1, hp |-> enemies[i].hp, maxHp |-> enemies[i].maxHp,
         damage |-> enemies[i].damage,
         isAttacking |-> enemies[i].intent = "ATTACK",
         isCache |-> enemies[i].type = "CACHE_GOLD"]]

ToVerifierTarget(enemies, targetId) ==
    IF targetId = "trash" THEN 0
    ELSE IF targetId = "player" THEN 1
    ELSE IF FindById(enemies, targetId) # 0 THEN FindById(enemies, targetId) + 1
    ELSE Len(enemies) + 2

ToVerifierAssignments(enemies, assignments) ==
    [i \in DOMAIN assignments |->
        [packetIndex |-> assignments[i].packetId,
         targetType |-> ToVerifierTarget(enemies, assignments[i].targetId)]]

VerifierCall(state, assignments) ==
    V_resolveTurn(state.levelSeed, ToVerifierPlayer(state.player),
                  ToVerifierEnemies(state.enemies), state.turnCounter,
                  ToVerifierAssignments(state.enemies, assignments), state.score)

(***************************************************************************)
(* The engine driven directly, as the unit tests drive it.                 *)
(***************************************************************************)
\* One call resolveTurn(gameState, assignments) and the same inputs given to the
\* verifier: what went in, what the input object holds afterwards, what came out.
CallRecord(state, assignments) ==
    LET r == resolveTurn(<<state>>, 1, assignments)
    IN  [made |-> TRUE,
         fn |-> "resolveTurn",
         input |-> state,
         assignments |-> assignments,
         threw |-> r.threw,
         inputAfter |-> r.heap[1],
         output |-> IF r.threw THEN NoState ELSE r.heap[r.ref],
         outputIsInput |-> ~r.threw /\ r.ref = 1,
         verifier |-> VerifierCall(state, assignments)]

InitEngine ==
    /\ env = "engine"
    /\ \E levelSeed \in Seeds, player \in InitialPlayers, enemies \in InitialEnemies :
          gameState = PlanningState(levelSeed, 1, player, enemies, 0)
    /\ call = NoCall
    /\ probe = NoProbe
    /\ store = IdleStore
    /\ timers = <<>>
    /\ chain = IdleChain

\* A test calls resolveTurn once on a state and keeps its own state object.
TestCall ==
    /\ env = "engine"
    /\ ~(call.made /\ call.input = gameState)
    /\ \E assignments \in TestedLists(gameState) :
          LET c == CallRecord(gameState, assignments)
          IN  /\ call' = c
              /\ gameState' = c.inputAfter
    /\ UNCHANGED <<env, probe, store, timers, chain>>

\* A caller plays a turn: it adopts the state resolveTurn returns.
PlayTurn ==
    /\ env = "engine"
    /\ gameState.turnCounter <= MaxTurn
    /\ \E assignments \in PlayedLists(gameState) :
          LET c == CallRecord(gameState, assignments)
          IN  /\ call' = c
              /\ gameState' = IF c.threw THEN c.inputAfter ELSE c.output
    /\ UNCHANGED <<env, probe, store, timers, chain>>

\* The next hand is dealt when the turn resolved to CONTINUE.
DealHand ==
    /\ env = "engine"
    /\ gameState.status = "WAITING_FOR_VRF"
    /\ gameState.turnCounter <= MaxTurn
    /\ LET d == derivePacketsFromSeed(gameState.levelSeed, gameState.turnCounter)
       IN  gameState' = [gameState EXCEPT !.dataStream = d.packets,
                                          !.anomaly = d.anomaly,
                                          !.jackpotHit = d.jackpotHit,
                                          !.status = "PLANNING"]
    /\ UNCHANGED <<env, call, probe, store, timers, chain>>

NextEngine == TestCall \/ PlayTurn \/ DealHand

SpecEngine == InitEngine /\ [][NextEngine]_vars

(***************************************************************************)
(* The pure helpers called directly.                                       *)
(***************************************************************************)
InitHelpers ==
    /\ env = "helpers"
    /\ gameState = NoState
    /\ call = NoCall
    /\ probe = NoProbe
    /\ store = IdleStore
    /\ timers = <<>>
    /\ chain = IdleChain

ProbeMapByte ==
    /\ env = "helpers"
    /\ \E byte \in Byte :
          probe' = [fn |-> "mapByteToPacketType", byte |-> byte,
                    client |-> mapByteToPacketType(byte),
                    verifier |-> V_mapByteToPacketType(byte)]
    /\ UNCHANGED <<env, gameState, call, store, timers, chain>>

ProbeDeriveHand ==
    /\ env = "helpers"
    /\ \E levelSeed \in Seeds, turn \in 1..MaxProbeTurn :
          probe' = [fn |-> "deriveHand", levelSeed |-> levelSeed, turn |-> turn,
                    preimage |-> TurnSeedPreimage(levelSeed, turn),
                    turnSeed |-> deriveTurnSeed(levelSeed, turn),
                    packets |-> derivePacketsFromSeed(levelSeed, turn).packets,
                    v_preimage |-> V_TurnSeedPreimage(levelSeed, turn),
                    v_turnSeed |-> V_deriveTurnSeed(levelSeed, turn),
                    v_hand |-> V_deriveHand(levelSeed, turn)]
    /\ UNCHANGED <<env, gameState, call, store, timers, chain>>

\* applyDamageToPlayer of the client and of the verifier on one player and damage,
\* called once on a player built for the call.
ProbeDamage ==
    /\ env = "helpers"
    /\ probe = NoProbe
    /\ \E s \in 0..MaxProbeStat, h \in 0..MaxProbeStat, d \in 0..MaxProbeStat :
          LET player == [hp |-> h, maxHp |-> MaxProbeStat, shield |-> s]
          IN  probe' = [fn |-> "applyDamageToPlayer", player |-> player, damage |-> d,
                        client |-> applyDamageToPlayer(player, d),
                        verifier |-> V_applyDamageToPlayer(player, d)]
    /\ UNCHANGED <<env, gameState, call, store, timers, chain>>


(***************************************************************************)
(* levelGenerator.ts and the store (gameStore.ts).                         *)
(***************************************************************************)
EnemyIdOf(i) == <<"enemy-0", "enemy-1", "enemy-2", "enemy-3">>[i + 1]

\* Ids that start with 'enemy-'.
EnemyPrefixed == {"enemy-0", "enemy-1", "enemy-2", "enemy-3", "enemy-9"}

\* Enemy i takes its type from byte 3i + 3 of the seed; the cache is placed on
\* the first free cell of a diagonal at distance 3 or more from the player, and
\* four enemies cannot occupy all five such cells, so it is always there.
generateLevelFromSeed(seed) ==
    LET bytes == toBytes(seed)
        enemyCount == (bytes[1] % 3) + 2
        enemy(i) ==
            LET bType == bytes[((3 * i + 3) % Len(bytes)) + 1]
            IN  IF bType >= 101 /\ bType <= 200
                THEN [id |-> EnemyIdOf(i), hp |-> 20, maxHp |-> 20, type |-> "firewall",
                      intent |-> "ATTACK", damage |-> 5]
                ELSE IF bType > 200
                THEN [id |-> EnemyIdOf(i), hp |-> 30, maxHp |-> 30, type |-> "sentinel",
                      intent |-> "DEFEND", damage |-> 8]
                ELSE [id |-> EnemyIdOf(i), hp |-> 15, maxHp |-> 15, type |-> "drone",
                      intent |-> "ATTACK", damage |-> 3]
    IN  [player |-> [hp |-> 100, maxHp |-> 100, shield |-> 0],
         enemies |-> [k \in 1..enemyCount |-> enemy(k - 1)]
                     \o <<[id |-> "cache-gold", hp |-> 1, maxHp |-> 1,
                           type |-> "CACHE_GOLD", intent |-> "IDLE", damage |-> 0]>>]

\* A check that lets every kind of packet go to every target.
canAssignPacketToTarget_anyTarget(packetType, targetId, enemies) == TRUE

canAssignPacketToTarget(packetType, targetId, enemies) ==
    IF targetId = "trash" THEN TRUE
    ELSE IF packetType \in {"ATTACK", "CRIT", "MISS"} THEN FindById(enemies, targetId) # 0
    ELSE IF packetType \in {"HEAL", "DEFEND"} THEN targetId = "player"
    ELSE FALSE

updateEnemyIntents(enemies, turnCounter) ==
    [k \in DOMAIN enemies |->
        LET pattern == (turnCounter + (k - 1)) % 3
        IN  [enemies[k] EXCEPT !.intent =
                IF pattern = 0 THEN "ATTACK"
                ELSE IF pattern = 1
                THEN (IF enemies[k].type = "sentinel" THEN "DEFEND" ELSE "ATTACK")
                ELSE "IDLE"]]

isValidAssignment(packetId, targetId) ==
    IF gameState = NoState THEN FALSE
    ELSE LET k == FindById(store.packetQueue, packetId)
             e == FindById(gameState.enemies, targetId)
         IN  /\ k # 0
             /\ \A i \in DOMAIN store.pendingAssignments :
                   store.pendingAssignments[i].packetId # packetId
             /\ targetId \in EnemyPrefixed => (e # 0 /\ gameState.enemies[e].hp > 0)
             /\ canAssignPacketToTarget(store.packetQueue[k].type, targetId,
                                        gameState.enemies)

RemoveAt(s, i) == SubSeq(s, 1, i - 1) \o SubSeq(s, i + 1, Len(s))

\* Turns the store is followed through: StoreTurns turns of a session started
\* by startGame, StoreTurns turns of a late session.
TurnWithinBound(turn) ==
    \/ turn <= StoreTurns
    \/ turn >= LateTurn /\ turn < LateTurn + StoreTurns

StoreInitialPlayers ==
    {[hp |-> 100, maxHp |-> 100, shield |-> 0],
     [hp |-> 3, maxHp |-> 100, shield |-> 0]}

StoreInitialEnemies ==
    {<<[id |-> "enemy-0", hp |-> 5, maxHp |-> 15, type |-> "drone",
        intent |-> "ATTACK", damage |-> 3]>>,
     <<[id |-> "enemy-0", hp |-> 20, maxHp |-> 20, type |-> "firewall",
        intent |-> "ATTACK", damage |-> 5],
       [id |-> "enemy-1", hp |-> 7, maxHp |-> 30, type |-> "sentinel",
        intent |-> "DEFEND", damage |-> 8]>>}

\* The store is picked up either as create() leaves it, or late in a session:
\* planning turn LateTurn, with the hand of that turn dealt and nothing assigned.
InitStore ==
    /\ env = "store"
    /\ \/ /\ gameState = NoState
          /\ store = IdleStore
       \/ \E levelSeed \in Seeds, player \in StoreInitialPlayers,
             enemies \in StoreInitialEnemies :
             /\ gameState = PlanningState(levelSeed, LateTurn, player,
                                          updateEnemyIntents(enemies, LateTurn), 300)
             /\ store = [currentLevelSeed |-> levelSeed, gameResult |-> "null",
                         packetQueue |-> gameState.dataStream, isExecuting |-> FALSE,
                         pendingAssignments |-> <<>>,
                         moveHistory |-> [t \in 1..(LateTurn - 1) |-> t]]
    /\ call = NoCall
    /\ probe = NoProbe
    /\ timers = <<>>
    /\ chain = IdleChain

\* A session is started on a store that holds no game and has no callback of an
\* earlier session pending.
startGame ==
    /\ env = "store"
    /\ gameState = NoState
    /\ timers = <<>>
    /\ \E seed \in Seeds :
          LET level == generateLevelFromSeed(seed)
              state == PlanningState(seed, 1, level.player, level.enemies, 0)
          IN  /\ gameState' = state
              /\ store' = [store EXCEPT !.currentLevelSeed = seed,
                                        !.gameResult = "null",
                                        !.packetQueue = state.dataStream,
                                        !.pendingAssignments = <<>>,
                                        !.isExecuting = FALSE]
              /\ call' = [made |-> TRUE, fn |-> "startGame"]
    /\ UNCHANGED <<env, probe, timers, chain>>

\* The lists a user builds: everything to trash, or ATTACK, CRIT and MISS at the
\* first living enemy and HEAL and DEFEND on the player.
UserLists ==
    LET living == {i \in DOMAIN gameState.enemies : gameState.enemies[i].hp > 0}
    IN  {ListFor(gameState, <<>>)}
        \cup {ListFor(gameState, PlayTargets(gameState, gameState.enemies[e].id)) :
                e \in {i \in living : \A j \in living : i <= j}}

\* What the user tries: the next packet of the hand at the target one of UserLists
\* gives it, or one of a few other attempts (the first packet again or at a target
\* that may be of the wrong kind or not exist, a packet that is not in the hand).
FollowsUserList(packetId, targetId) ==
    /\ gameState # NoState
    /\ \E list \in UserLists :
          LET k == Len(store.pendingAssignments) + 1
          IN  /\ k <= Len(list)
              /\ SubSeq(list, 1, k - 1) = store.pendingAssignments
              /\ list[k] = [packetId |-> packetId, targetId |-> targetId]

RefusedAttempts ==
    {<<0, "trash">>, <<0, "player">>, <<0, "enemy-0">>, <<0, "enemy-9">>, <<99, "trash">>}

assignPacket ==
    /\ env = "store"
    /\ \E packetId \in 0..7 \cup {99},
          targetId \in {"trash", "player", "cache-gold"} \cup EnemyPrefixed :
          /\ \/ FollowsUserList(packetId, targetId)
             \/ <<packetId, targetId>> \in RefusedAttempts
          /\ IF ~isValidAssignment(packetId, targetId)
             THEN /\ call' = [made |-> TRUE, fn |-> "assignPacket", returned |-> FALSE]
                  /\ UNCHANGED store
             ELSE /\ store' = [store EXCEPT !.pendingAssignments =
                                  Append(SelectSeqBy(@, {a \in Range(@) :
                                                            a.packetId # packetId}),
                                         [packetId |-> packetId, targetId |-> targetId])]
                  /\ call' = [made |-> TRUE, fn |-> "assignPacket", returned |-> TRUE]
    /\ UNCHANGED <<env, gameState, probe, timers, chain>>

\* The user takes back the packet assigned last.
unassignPacket ==
    /\ env = "store"
    /\ store.pendingAssignments # <<>>
    /\ LET packetId == store.pendingAssignments[Len(store.pendingAssignments)].packetId
       IN  /\ store' = [store EXCEPT !.pendingAssignments =
                           SelectSeqBy(@, {a \in Range(@) : a.packetId # packetId})]
           /\ call' = [made |-> TRUE, fn |-> "unassignPacket"]
    /\ UNCHANGED <<env, gameState, probe, timers, chain>>

\* executeTurn returns at once without a game or with a packet left unassigned;
\* otherwise it schedules the resolution of the state and the list it sees now.
executeTurn ==
    /\ env = "store"
    /\ Len(timers) < MaxTimers
    /\ gameState # NoState => TurnWithinBound(gameState.turnCounter)
    /\ IF gameState = NoState
          \/ Len(store.pendingAssignments) # Len(gameState.dataStream)
       THEN /\ call' = [made |-> TRUE, fn |-> "executeTurn", scheduled |-> FALSE]
            /\ UNCHANGED <<store, timers>>
       ELSE /\ call' = [made |-> TRUE, fn |-> "executeTurn", scheduled |-> TRUE]
            /\ store' = [store EXCEPT !.isExecuting = TRUE]
            /\ timers' = Append(timers, [kind |-> "resolve",
                                         gameState |-> gameState,
                                         pendingAssignments |-> store.pendingAssignments,
                                         moveHistory |-> store.moveHistory])
    /\ UNCHANGED <<env, gameState, probe, chain>>

\* A callback runs when its delay is over: a 500 ms callback before every
\* callback scheduled after it, a 1500 ms one before the 1500 ms ones scheduled
\* after it.
MayFire(i) ==
    \A j \in 1..(i - 1) : timers[j].kind = "resolve" /\ timers[i].kind = "newHand"

\* The callback executeTurn scheduled: resolve, publish the next state, and on
\* CONTINUE schedule the next hand.
ResolveTimer(i) ==
    /\ env = "store"
    /\ i \in DOMAIN timers
    /\ timers[i].kind = "resolve"
    /\ MayFire(i)
    /\ LET t == timers[i]
           r == resolveTurn(<<t.gameState>>, 1, t.pendingAssignments)
           resolved == r.heap[r.ref]
           result == checkTurnResult(resolved)
           nextState == IF result = "CONTINUE"
                        THEN [resolved EXCEPT !.enemies =
                                 updateEnemyIntents(resolved.enemies, resolved.turnCounter)]
                        ELSE resolved
       IN  IF r.threw
           THEN /\ store' = [store EXCEPT !.isExecuting = FALSE]
                /\ timers' = RemoveAt(timers, i)
                /\ call' = [made |-> TRUE, fn |-> "resolveTimer", threw |-> TRUE]
                /\ UNCHANGED gameState
           ELSE /\ gameState' = nextState
                /\ store' = [store EXCEPT
                                !.gameResult = result,
                                !.pendingAssignments = <<>>,
                                !.moveHistory = Append(t.moveHistory, t.gameState.turnCounter),
                                !.isExecuting = IF result = "CONTINUE" THEN @ ELSE FALSE]
                /\ timers' = IF result = "CONTINUE"
                             THEN Append(RemoveAt(timers, i), [kind |-> "newHand"])
                             ELSE RemoveAt(timers, i)
                /\ call' = [made |-> TRUE, fn |-> "resolveTimer", threw |-> FALSE,
                            input |-> t.gameState]
    /\ UNCHANGED <<env, probe, chain>>

\* The 500 ms callback: isExecuting off, then generateNewHand.
NewHandTimer(i) ==
    /\ env = "store"
    /\ i \in DOMAIN timers
    /\ timers[i].kind = "newHand"
    /\ MayFire(i)
    /\ timers' = RemoveAt(timers, i)
    /\ IF gameState = NoState \/ store.currentLevelSeed = NoSeed
       THEN /\ store' = [store EXCEPT !.isExecuting = FALSE]
            /\ UNCHANGED gameState
       ELSE LET d == derivePacketsFromSeed(store.currentLevelSeed, gameState.turnCounter)
            IN  /\ gameState' = [gameState EXCEPT !.dataStream = d.packets,
                                                  !.anomaly = d.anomaly,
                                                  !.jackpotHit = d.jackpotHit,
                                                  !.status = "PLANNING"]
                /\ store' = [store EXCEPT !.isExecuting = FALSE,
                                          !.packetQueue = d.packets,
                                          !.gameResult = "null",
                                          !.pendingAssignments = <<>>]
    /\ call' = [made |-> TRUE, fn |-> "newHandTimer"]
    /\ UNCHANGED <<env, probe, chain>>

resetGame ==
    /\ env = "store"
    /\ gameState # NoState
    /\ gameState' = NoState
    /\ store' = IdleStore
    /\ call' = [made |-> TRUE, fn |-> "resetGame"]
    /\ UNCHANGED <<env, probe, timers, chain>>

NextStore ==
    \/ startGame
    \/ assignPacket
    \/ unassignPacket
    \/ executeTurn
    \/ \E i \in 1..MaxTimers : ResolveTimer(i)
    \/ \E i \in 1..MaxTimers : NewHandTimer(i)
    \/ resetGame

SpecStore == InitStore /\ [][NextStore]_vars

(***************************************************************************)
(* FateboundCore.sol.                                                      *)
(***************************************************************************)
DEFAULT_PLAYER_HP == 100
UINT8_MAX == 255

RECURSIVE EnemyData(_)
EnemyData(enemies) ==
    IF enemies = <<>> THEN <<>>
    ELSE LET e == Head(enemies)
         IN  <<e.id, e.hp, e.maxHp, e.damage, IF e.isAttacking THEN 1 ELSE 0,
               IF e.isCache THEN 1 ELSE 0>> \o EnemyData(Tail(enemies))

\* A hash that leaves the player's hp out.
computeStateHash_hpBlind(player, enemies, turn, score) ==
    <<0, player.maxHp, player.shield, turn, score>> \o EnemyData(enemies)

\* The packed encoding that is hashed stands for its hash: two states have the
\* same stateHash exactly when their encodings are equal.
computeStateHash(player, enemies, turn, score) ==
    <<player.hp, player.maxHp, player.shield, turn, score>> \o EnemyData(enemies)

ZeroHash == <<>>

\* The pre-state a stateHash commits to, as the player who computed it knows it.
CommittedPlayer(stateHash) ==
    [hp |-> stateHash[1], maxHp |-> stateHash[2], shield |-> stateHash[3]]

CommittedEnemies(stateHash) ==
    [k \in 1..((Len(stateHash) - 5) \div 6) |->
        [id |-> stateHash[6 * k], hp |-> stateHash[6 * k + 1],
         maxHp |-> stateHash[6 * k + 2], damage |-> stateHash[6 * k + 3],
         isAttacking |-> stateHash[6 * k + 4] = 1, isCache |-> stateHash[6 * k + 5] = 1]]

getDefaultEnemies ==
    <<[id |-> 0, hp |-> 20, maxHp |-> 20, damage |-> 5, isAttacking |-> TRUE,
       isCache |-> FALSE],
      [id |-> 1, hp |-> 15, maxHp |-> 15, damage |-> 3, isAttacking |-> TRUE,
       isCache |-> FALSE],
      [id |-> 2, hp |-> 30, maxHp |-> 30, damage |-> 8, isAttacking |-> FALSE,
       isCache |-> FALSE]>>

EntropySeeds == {SeedOf(1), SeedOf(2)}
ZeroSeed == [i \in 1..32 |-> 0]

GameAt_stillWaiting(gameId) ==
    IF gameId \in DOMAIN chain.games
    THEN [chain.games[gameId] EXCEPT !.status = "WAITING_FOR_VRF"]
    ELSE [player |-> "0x0", seed |-> ZeroSeed, stateHash |-> ZeroHash, currentTurn |-> 0,
          score |-> 0, status |-> "NONE", result |-> "CONTINUE"]

\* A mapping that reads a game completed after its seed arrived as ACTIVE again.
GameAt_reopened(gameId) ==
    IF gameId \in DOMAIN chain.games
    THEN [chain.games[gameId] EXCEPT
            !.status = IF @ = "COMPLETED" /\ chain.games[gameId].currentTurn > 0
                       THEN "ACTIVE" ELSE @]
    ELSE [player |-> "0x0", seed |-> ZeroSeed, stateHash |-> ZeroHash, currentTurn |-> 0,
          score |-> 0, status |-> "NONE", result |-> "CONTINUE"]

\* A mapping that reads every game written as COMPLETED.
GameAt_completed(gameId) ==
    IF gameId \in DOMAIN chain.games
    THEN [chain.games[gameId] EXCEPT !.status = "COMPLETED"]
    ELSE [player |-> "0x0", seed |-> ZeroSeed, stateHash |-> ZeroHash, currentTurn |-> 0,
          score |-> 0, status |-> "NONE", result |-> "CONTINUE"]

\* games[gameId] of the mapping: the zero Game for an id never written.
GameAt(gameId) ==
    IF gameId \in DOMAIN chain.games THEN chain.games[gameId]
    ELSE [player |-> "0x0", seed |-> ZeroSeed, stateHash |-> ZeroHash, currentTurn |-> 0,
          score |-> 0, status |-> "NONE", result |-> "CONTINUE"]

SequenceToGameId(sequenceNumber) ==
    IF sequenceNumber \in DOMAIN chain.sequenceToGameId
    THEN chain.sequenceToGameId[sequenceNumber] ELSE 0

Tx(fn, reverted) == [made |-> TRUE, fn |-> fn, reverted |-> reverted]

\* A submitTurn transaction, with its msg.sender and the game id, the player,
\* the enemies and the assignments it was sent (for a game that is not active,
\* which commits to no state and has no hand to assign, the zero player and
\* empty lists).
SubmitTx(reverted, sender, gameId, player, enemies, assignments) ==
    [made |-> TRUE, fn |-> "submitTurn", reverted |-> reverted, sender |-> sender,
     gameId |-> gameId, player |-> player, enemies |-> enemies,
     assignments |-> assignments]

\* A claimVictory or forfeitGame transaction, with its msg.sender and game id.
PlayerTx(fn, reverted, sender, gameId) ==
    [made |-> TRUE, fn |-> fn, reverted |-> reverted, sender |-> sender,
     gameId |-> gameId]

\* A call of _entropyCallback, with its msg.sender and its sequence number.
EntropyTx(reverted, sender, sequenceNumber) ==
    [made |-> TRUE, fn |-> "_entropyCallback", reverted |-> reverted,
     sender |-> sender, sequenceNumber |-> sequenceNumber]

InitChain ==
    /\ env = "chain"
    /\ gameState = NoState
    /\ call = NoCall
    /\ probe = NoProbe
    /\ store = IdleStore
    /\ timers = <<>>
    /\ chain = IdleChain

\* startGame(), with a fee that covers the VRF fee or not. The Entropy contract
\* hands out sequence numbers in order.
C_startGame ==
    /\ env = "chain"
    /\ chain.gameCounter < MaxGames
    /\ \E sender \in Starters, feePaid \in BOOLEAN :
          LET existingGame == chain.activeGameId[sender]
              gameId == chain.gameCounter + 1
              sequenceNumber == Len(chain.sequenceToGameId) + 1
          IN  IF \/ existingGame # 0
                    /\ GameAt(existingGame).status \notin {"COMPLETED", "NONE"}
                 \/ ~feePaid
              THEN call' = Tx("startGame", TRUE) /\ UNCHANGED chain
              ELSE /\ call' = Tx("startGame", FALSE)
                   /\ chain' = [gameCounter |-> gameId,
                                games |-> Append(chain.games,
                                    [player |-> sender, seed |-> ZeroSeed,
                                     stateHash |-> ZeroHash, currentTurn |-> 0,
                                     score |-> 0, status |-> "WAITING_FOR_VRF",
                                     result |-> "CONTINUE"]),
                                activeGameId |-> [chain.activeGameId EXCEPT ![sender] = gameId],
                                sequenceToGameId |-> Append(chain.sequenceToGameId, gameId)]
    /\ UNCHANGED <<env, gameState, probe, store, timers>>

C_entropyCallback ==
    /\ env = "chain"
    /\ \E sender \in {ENTROPY, "bob"}, sequenceNumber \in 1..MaxGames,
          randomNumber \in EntropySeeds :
          LET gameId == SequenceToGameId(sequenceNumber)
          IN  IF \/ sender # ENTROPY
                 \/ gameId = 0
                 \/ GameAt(gameId).status # "WAITING_FOR_VRF"
              THEN call' = EntropyTx(TRUE, sender, sequenceNumber) /\ UNCHANGED chain
              ELSE /\ call' = EntropyTx(FALSE, sender, sequenceNumber)
                   /\ chain' = [chain EXCEPT
                         !.games[gameId] =
                             [@ EXCEPT !.seed = randomNumber,
                                       !.currentTurn = 1,
                                       !.status = "ACTIVE",
                                       !.stateHash = computeStateHash(
                                           [hp |-> DEFAULT_PLAYER_HP,
                                            maxHp |-> DEFAULT_PLAYER_HP, shield |-> 0],
                                           getDefaultEnemies, 1, 0)],
                         !.sequenceToGameId[sequenceNumber] = 0]
    /\ UNCHANGED <<env, gameState, probe, store, timers>>

\* submitTurn by any address, for any game id, with the pre-state the stored
\* hash commits to or one that differs from it in the player's hp, and with
\* every packet of the verifier's hand at enemy 0 or that list cut short by one.
C_submitTurn ==
    /\ env = "chain"
    /\ \E sender \in Addresses, gameId \in 1..MaxGames, truthful \in BOOLEAN,
          short \in BOOLEAN :
          LET game == GameAt(gameId)
              committed == CommittedPlayer(game.stateHash)
              player == IF truthful THEN committed
                        ELSE [committed EXCEPT !.hp = (@ + 1) % 65536]
              enemies == CommittedEnemies(game.stateHash)
              hand == V_deriveHand(game.seed, game.currentTurn)
              all == [i \in DOMAIN hand |-> [packetIndex |-> i - 1, targetType |-> 2]]
              assignments == IF short THEN SubSeq(all, 1, Len(all) - 1) ELSE all
              r == V_resolveTurn(game.seed, player, enemies, game.currentTurn,
                                 assignments, game.score)
              nextTurn == game.currentTurn + 1
          IN  /\ game.status = "ACTIVE" => game.currentTurn <= ChainTurns
              /\ IF \/ sender # game.player
                    \/ game.status # "ACTIVE"
                    \/ computeStateHash(player, enemies, game.currentTurn, game.score)
                          # game.stateHash
                    \/ r.reverted
                    \/ nextTurn > UINT8_MAX
                 THEN /\ call' = IF game.status = "ACTIVE"
                                 THEN SubmitTx(TRUE, sender, gameId, player, enemies,
                                               assignments)
                                 ELSE SubmitTx(TRUE, sender, gameId,
                                               [hp |-> 0, maxHp |-> 0, shield |-> 0],
                                               <<>>, <<>>)
                      /\ UNCHANGED chain
                 ELSE /\ call' = SubmitTx(FALSE, sender, gameId, player, enemies,
                                           assignments)
                      /\ chain' = [chain EXCEPT !.games[gameId] =
                            [@ EXCEPT
                               !.currentTurn = nextTurn,
                               !.score = r.newScore,
                               !.stateHash = computeStateHash(r.newPlayer, r.newEnemies,
                                                              nextTurn, r.newScore),
                               !.status = IF r.result # "CONTINUE" THEN "COMPLETED" ELSE @,
                               !.result = IF r.result # "CONTINUE" THEN r.result ELSE @]]
    /\ UNCHANGED <<env, gameState, probe, store, timers>>

\* The scores claimed fit a uint32, so the cast keeps them.
C_claimVictory ==
    /\ env = "chain"
    /\ \E sender \in Addresses, gameId \in 1..MaxGames, claimedScore \in {9999} :
          LET game == GameAt(gameId)
          IN  IF sender # game.player \/ game.status # "ACTIVE"
              THEN call' = PlayerTx("claimVictory", TRUE, sender, gameId) /\ UNCHANGED chain
              ELSE /\ call' = PlayerTx("claimVictory", FALSE, sender, gameId)
                   /\ chain' = [chain EXCEPT !.games[gameId] =
                         [@ EXCEPT !.status = "COMPLETED",
                                   !.result = "VICTORY",
                                   !.score = claimedScore]]
    /\ UNCHANGED <<env, gameState, probe, store, timers>>

C_forfeitGame ==
    /\ env = "chain"
    /\ \E sender \in Addresses, gameId \in 1..MaxGames :
          LET game == GameAt(gameId)
          IN  IF \/ sender # game.player
                 \/ game.status \notin {"ACTIVE", "WAITING_FOR_VRF"}
              THEN call' = PlayerTx("forfeitGame", TRUE, sender, gameId) /\ UNCHANGED chain
              ELSE /\ call' = PlayerTx("forfeitGame", FALSE, sender, gameId)
                   /\ chain' = [chain EXCEPT !.games[gameId] =
                         [@ EXCEPT !.status = "COMPLETED", !.result = "DEFEAT"]]
    /\ UNCHANGED <<env, gameState, probe, store, timers>>

NextChain ==
    \/ C_startGame
    \/ C_entropyCallback
    \/ C_submitTurn
    \/ C_claimVictory
    \/ C_forfeitGame

SpecChain == InitChain /\ [][NextChain]_vars

(***************************************************************************)
(* Any of the runtimes.                                                    *)
(***************************************************************************)
(***************************************************************************)
(* State commitment of the client: serializeStateForHash(state), the       *)
(* string that is to be hashed.  JSON.stringify of the normalized object   *)
(* writes its keys in the order they were set, so two strings are equal    *)
(* exactly when the values listed here are equal, in this order.           *)
(***************************************************************************)
\* The ids in the order String.prototype.localeCompare puts them.
LocaleOrder == <<"cache-gold", "enemy-0", "enemy-1", "enemy-2", "enemy-3", "enemy-9">>

localeCompare(a, b) ==
    LET rank(id) == CHOOSE k \in DOMAIN LocaleOrder : LocaleOrder[k] = id
    IN  rank(a) - rank(b)

RECURSIVE SortById(_)
\* Array.prototype.sort((a, b) => a.id.localeCompare(b.id)): stable.
SortById(items) ==
    IF items = <<>> THEN <<>>
    ELSE LET last == items[Len(items)]
             sorted == SortById(SubSeq(items, 1, Len(items) - 1))
             before == {k \in DOMAIN sorted : localeCompare(sorted[k].id, last.id) <= 0}
             n == Cardinality(before)
         IN  SubSeq(sorted, 1, n) \o <<last>> \o SubSeq(sorted, n + 1, Len(sorted))

serializeStateForHash(state) ==
    <<"status", state.status, "levelSeed", state.levelSeed,
      "turnCounter", state.turnCounter, "levelId", state.levelId,
      "player", <<"hp", state.player.hp, "shield", state.player.shield>>,
      "enemies", SortById([i \in DOMAIN state.enemies |->
                    [id |-> state.enemies[i].id, hp |-> state.enemies[i].hp]])>>

(***************************************************************************)
(* turnResolver.test.ts: the unit tests of the resolver's steps, each run  *)
(* on the client function and on the verifier function of the same step.   *)
(* Every test case builds its own fixture: a probe is the one call made on *)
(* it.                                                                     *)
(***************************************************************************)
createTestPacket(type, rarity) ==
    [id |-> 0, byteValue |-> 100, type |-> type, rarity |-> rarity,
     value |-> PACKET_VALUES[type]]

createTestState(player, enemies, anomaly, packet) ==
    [status |-> "EXECUTING", levelSeed |-> SeedOf(1), turnCounter |-> 1,
     levelId |-> 1, player |-> player, enemies |-> enemies,
     dataStream |-> <<packet>>, assignments |-> <<>>, score |-> 0,
     anomaly |-> anomaly, jackpotHit |-> FALSE]

TestPlayers ==
    {[hp |-> 100, maxHp |-> 100, shield |-> 0],
     [hp |-> 95, maxHp |-> 100, shield |-> 0],
     [hp |-> 50, maxHp |-> 100, shield |-> 8]}

\* The test's Drone with the hp the test sets, a second enemy beside it, and
\* the CACHE_GOLD cache.
TestEnemies ==
    {<<[id |-> "enemy-0", hp |-> hp, maxHp |-> 20, type |-> "basic",
        intent |-> "ATTACK", damage |-> 5],
       [id |-> "enemy-1", hp |-> 9, maxHp |-> 30, type |-> "sentinel",
        intent |-> "DEFEND", damage |-> 8],
       [id |-> "cache-gold", hp |-> 1, maxHp |-> 1, type |-> "CACHE_GOLD",
        intent |-> "IDLE", damage |-> 0]>> : hp \in {2, 20}}

TestTargets == {"player", "trash", "enemy-0", "cache-gold"}

\* applyPacketEffect(state, packet, target) of the client, and the verifier's
\* applyPacketToPlayer / applyPacketToEnemy on the same packet kind and target.
ProbePacketEffect ==
    /\ env = "helpers"
    /\ probe = NoProbe
    /\ \E type \in PacketTypes, rarity \in Rarities, anomaly \in Anomalies,
          player \in TestPlayers, enemies \in TestEnemies, targetId \in TestTargets :
          LET packet == createTestPacket(type, rarity)
              state == createTestState(player, enemies, anomaly, packet)
              v_packet == [byteValue |-> packet.byteValue, packetType |-> type,
                           value |-> V_getPacketValue(type)]
          IN  probe' = [fn |-> "applyPacketEffect", state |-> state,
                        packet |-> packet, targetId |-> targetId,
                        effectiveValue |-> effectiveValueOf(state, packet),
                        client |-> applyPacketEffect(state, packet, targetId),
                        v_packet |-> v_packet,
                        verifier |-> V_ApplyAssignments(
                            <<v_packet>>, ToVerifierPlayer(player),
                            ToVerifierEnemies(enemies),
                            <<[packetIndex |-> 0,
                               targetType |-> ToVerifierTarget(enemies, targetId)]>>)]
    /\ UNCHANGED <<env, gameState, call, store, timers, chain>>

TestHps == {0, 1, 100}

\* Enemy lists of the checkTurnResult tests: none, one, or two enemies, each
\* dead or alive.
ResultEnemies ==
    LET drone(hp) == [id |-> "enemy-0", hp |-> hp, maxHp |-> 20, type |-> "basic",
                      intent |-> "ATTACK", damage |-> 5]
        other(hp) == [id |-> "enemy-1", hp |-> hp, maxHp |-> 30, type |-> "sentinel",
                      intent |-> "DEFEND", damage |-> 8]
    IN  {<<>>} \cup {<<drone(a)>> : a \in {0, 20}}
               \cup {<<drone(a), other(b)>> : a \in {0, 20}, b \in {0, 9}}

\* checkTurnResult of the client and of the verifier on one state.
ProbeCheckResult ==
    /\ env = "helpers"
    /\ probe = NoProbe
    /\ \E hp \in TestHps, enemies \in ResultEnemies :
          LET player == [hp |-> hp, maxHp |-> 100, shield |-> 0]
              state == createTestState(player, enemies, "STABLE",
                                       createTestPacket("ATTACK", "COMMON"))
          IN  probe' = [fn |-> "checkTurnResult", state |-> state,
                        client |-> checkTurnResult(state),
                        verifier |-> V_checkTurnResult(ToVerifierPlayer(player),
                                                       ToVerifierEnemies(enemies))]
    /\ UNCHANGED <<env, gameState, call, store, timers, chain>>

\* One change made to a state before it is committed a second time.
CommitChanges ==
    {"none", "permuted", "score", "turnCounter", "playerHp", "playerShield",
     "enemyHp", "enemyId", "playerMaxHp", "status", "levelId", "enemyDamage",
     "enemyIntent"}

Permuted(items, perm) == [i \in DOMAIN items |-> items[perm[i]]]

\* The client state with the change made.
Changed(state, change, perm) ==
    CASE change = "permuted" -> [state EXCEPT !.enemies = Permuted(@, perm)]
      [] change = "score" -> [state EXCEPT !.score = @ + 100]
      [] change = "turnCounter" -> [state EXCEPT !.turnCounter = @ + 1]
      [] change = "playerHp" -> [state EXCEPT !.player.hp = @ - 1]
      [] change = "playerShield" -> [state EXCEPT !.player.shield = @ + 1]
      [] change = "enemyHp" -> [state EXCEPT !.enemies[1].hp = @ - 1]
      [] change = "enemyId" -> [state EXCEPT !.enemies[1].id = "enemy-9"]
      [] change = "playerMaxHp" -> [state EXCEPT !.player.maxHp = @ + 1]
      [] change = "status" -> [state EXCEPT !.status = "PLANNING"]
      [] change = "levelId" -> [state EXCEPT !.levelId = @ + 1]
      [] change = "enemyDamage" -> [state EXCEPT !.enemies[1].damage = @ + 1]
      [] change = "enemyIntent" -> [state EXCEPT !.enemies[1].intent = "DEFEND"]
      [] OTHER -> state

\* The arguments computeStateHash takes for a client state: the enemy structs
\* carry the ids they were given in the unchanged state's order.
CommitArgs(state) ==
    [player |-> ToVerifierPlayer(state.player),
     enemies |-> ToVerifierEnemies(state.enemies),
     turn |-> state.turnCounter, score |-> state.score]

\* The verifier's arguments with the change made.
V_Changed(args, change, perm) ==
    CASE change = "permuted" -> [args EXCEPT !.enemies = Permuted(@, perm)]
      [] change = "score" -> [args EXCEPT !.score = @ + 100]
      [] change = "turnCounter" -> [args EXCEPT !.turn = @ + 1]
      [] change = "playerHp" -> [args EXCEPT !.player.hp = @ - 1]
      [] change = "playerShield" -> [args EXCEPT !.player.shield = @ + 1]
      [] change = "enemyHp" -> [args EXCEPT !.enemies[1].hp = @ - 1]
      [] change = "enemyId" -> [args EXCEPT !.enemies[1].id = 9]
      [] change = "playerMaxHp" -> [args EXCEPT !.player.maxHp = @ + 1]
      [] change = "enemyDamage" -> [args EXCEPT !.enemies[1].damage = @ + 1]
      [] change = "enemyIntent" -> [args EXCEPT !.enemies[1].isAttacking = FALSE]
      [] OTHER -> args

\* A state committed twice, the second time with one change made to it, by
\* serializeStateForHash and by computeStateHash.
ProbeCommit ==
    /\ env = "helpers"
    /\ probe = NoProbe
    /\ \E player \in TestPlayers, enemies \in TestEnemies, change \in CommitChanges :
       \E perm \in Permutations(1..Len(enemies)) :
          LET state == createTestState(player, enemies, "STABLE",
                                       createTestPacket("ATTACK", "COMMON"))
              other == Changed(state, change, perm)
              args == CommitArgs(state)
              v_other == V_Changed(args, change, perm)
          IN  /\ change # "permuted" => perm = [i \in DOMAIN enemies |-> i]
              /\ change = "permuted" => perm # [i \in DOMAIN enemies |-> i]
              /\ probe' = [fn |-> "commit", state |-> state, change |-> change,
                           other |-> other,
                           client |-> serializeStateForHash(state),
                           clientOther |-> serializeStateForHash(other),
                           v_args |-> args, v_other |-> v_other,
                           verifier |-> computeStateHash(args.player, args.enemies,
                                                         args.turn, args.score),
                           verifierOther |-> computeStateHash(
                                v_other.player, v_other.enemies,
                                v_other.turn, v_other.score)]
    /\ UNCHANGED <<env, gameState, call, store, timers, chain>>

\* Turn numbers below 1: 0, which the verifier's uint8 can hold, and -1.
TurnsBelowOne == {-1, 0}

\* A hand asked for a turn below 1: calculatePacketCount and
\* derivePacketsFromSeed of the client, deriveHand of the verifier when the turn
\* fits its uint8.
ProbeTurnBelowOne ==
    /\ env = "helpers"
    /\ probe = NoProbe
    /\ \E levelSeed \in Seeds, turn \in TurnsBelowOne :
          LET d == derivePacketsFromSeed(levelSeed, turn)
              fits == turn \in 0..UINT8_MAX
          IN  probe' = [fn |-> "turnBelowOne", levelSeed |-> levelSeed, turn |-> turn,
                        countThrew |-> calculatePacketCountThrows(turn),
                        threw |-> d.threw,
                        packets |-> IF d.threw THEN <<>> ELSE d.packets,
                        v_called |-> fits,
                        v_reverted |-> fits /\ V_deriveHandReverts(turn),
                        v_hand |-> IF fits /\ ~V_deriveHandReverts(turn)
                                   THEN V_deriveHand(levelSeed, turn) ELSE <<>>]
    /\ UNCHANGED <<env, gameState, call, store, timers, chain>>

\* The players and the enemy lists resolveTurn is tested on: the test's Drone
\* with few or many hp, alone or beside a second enemy of each intent.
ResolvePlayers ==
    {[hp |-> 100, maxHp |-> 100, shield |-> 0],
     [hp |-> 4, maxHp |-> 100, shield |-> 0],
     [hp |-> 50, maxHp |-> 100, shield |-> 8]}

ResolveEnemies ==
    LET drone(hp) == [id |-> "enemy-0", hp |-> hp, maxHp |-> 20, type |-> "basic",
                      intent |-> "ATTACK", damage |-> 5]
        other(intent) == [id |-> "enemy-1", hp |-> 9, maxHp |-> 30, type |-> "sentinel",
                          intent |-> intent, damage |-> 8]
    IN  {<<drone(hp)>> : hp \in {3, 20}}
        \cup {<<drone(hp), other(intent)>> :
                 hp \in {3, 20}, intent \in {"ATTACK", "DEFEND", "IDLE"}}

\* The state resolveTurn holds after its steps 1 to 4 (start-of-turn effects,
\* the packets, the kill score, the removal of the dead), for assignments it
\* accepts.
AfterPackets(currentState, assignments) ==
    LET applied == ApplyAssignments(StartOfTurn(currentState), assignments).state
    IN  removeDeadEnemies(
            [applied EXCEPT !.score = @ + KillScore(applied.enemies,
                                                     currentState.enemies)])

\* Phase 2 of the verifier's resolveTurn: [newPlayer, result].
V_Phase2(player, enemies) ==
    LET first == V_checkTurnResult(player, enemies)
        newPlayer == IF first = "CONTINUE" THEN V_executeEnemyPhase(player, enemies)
                     ELSE player
    IN  [newPlayer |-> newPlayer,
         result |-> IF first = "CONTINUE" THEN V_checkTurnResult(newPlayer, enemies)
                    ELSE first]

\* resolveTurn on a test state with its one packet assigned, and the
\* verifier's two phases on the same packet, player and enemies.
ProbeResolveTurn ==
    /\ env = "helpers"
    /\ probe = NoProbe
    /\ \E type \in PacketTypes, anomaly \in Anomalies, player \in ResolvePlayers,
          enemies \in ResolveEnemies, targetId \in {"player", "trash", "enemy-0"} :
          LET packet == createTestPacket(type, "COMMON")
              state == [createTestState(player, enemies, anomaly, packet)
                           EXCEPT !.status = "PLANNING"]
              assignments == <<[packetId |-> packet.id, targetId |-> targetId]>>
              r == resolveTurn(<<state>>, 1, assignments)
              v_packet == [byteValue |-> packet.byteValue, packetType |-> type,
                           value |-> V_getPacketValue(type)]
              v == V_ApplyAssignments(
                       <<v_packet>>, ToVerifierPlayer(player), ToVerifierEnemies(enemies),
                       <<[packetIndex |-> 0,
                          targetType |-> ToVerifierTarget(enemies, targetId)]>>)
          IN  probe' = [fn |-> "resolveTurn", state |-> state,
                        assignments |-> assignments, threw |-> r.threw,
                        afterPackets |-> IF r.threw THEN NoState
                                         ELSE AfterPackets(state, assignments),
                        output |-> IF r.threw THEN NoState ELSE r.heap[r.ref],
                        v_afterPackets |-> v,
                        verifier |-> IF v.reverted THEN Reverted
                                     ELSE V_Phase2(v.player, v.enemies)]
    /\ UNCHANGED <<env, gameState, call, store, timers, chain>>

NextHelpers ==
    \/ ProbeMapByte
    \/ ProbeDeriveHand
    \/ ProbeDamage
    \/ ProbePacketEffect
    \/ ProbeCheckResult
    \/ ProbeCommit
    \/ ProbeTurnBelowOne
    \/ ProbeResolveTurn

SpecHelpers == InitHelpers /\ [][NextHelpers]_vars

(***************************************************************************)
(* gameStore.ts: the on-chain session of the store.  In this part `store`  *)
(* holds the store's on-chain fields, `gameState` the engine's state,      *)
(* `chain` the contract, `timers` what the event loop still has to run     *)
(* (an initiateGameOnChain call suspended at an await, or a watcher: its   *)
(* event listener, its poll interval and its timeout), `call` the last     *)
(* transaction sent and `probe` what an observer of the session has noted. *)
(***************************************************************************)
SessionPlayer == "alice"

SessionStore(onChainStatus, onChainGameId, onChainError) ==
    [onChainStatus |-> onChainStatus, onChainGameId |-> onChainGameId,
     onChainError |-> onChainError]

\* create(): onChainStatus 'IDLE', onChainGameId and onChainError null.
IdleSession == SessionStore("IDLE", 0, "null")

SeedAwaited == {"REQUESTING_VRF", "WAITING_FOR_VRF"}

\* The seed the Entropy contract delivers to the games of a session.
SessionSeeds == {SeedOf(1)}

\* An initiateGameOnChain call suspended at the await named by pc.
Suspended(pc) ==
    [kind |-> "initiateGameOnChain", pc |-> pc, found |-> FALSE, watching |-> FALSE,
     fired |-> FALSE, logs |-> <<>>]

\* What one watchGameEvents call leaves behind: `found`, the listener and the
\* interval (both installed while `watching`), the timeout (pending until
\* `fired`) and the GameStarted logs not yet handed to the listener.
Watcher(found, watching, fired, logs) ==
    [kind |-> "watchGameEvents", pc |-> "watching", found |-> found,
     watching |-> watching, fired |-> fired, logs |-> logs]

Watchers == {w \in DOMAIN timers : timers[w].kind = "watchGameEvents"}

\* Which of two entries of the list comes first makes no difference to what
\* either does, so the list is kept in one order: suspended calls before
\* watchers, and watchers by their timeout and the log they hold.
TaskRank(t) ==
    IF t.kind = "initiateGameOnChain"
    THEN (IF t.pc = "writeContract" THEN 0 ELSE 1)
    ELSE 2 + (IF t.fired THEN MaxGames + 1 ELSE 0)
           + (IF t.logs = <<>> THEN 0 ELSE Head(t.logs))

RECURSIVE Placed(_, _)
Placed(t, tasks) ==
    IF tasks = <<>> THEN <<t>>
    ELSE IF TaskRank(t) <= TaskRank(Head(tasks)) THEN <<t>> \o tasks
    ELSE <<Head(tasks)>> \o Placed(t, Tail(tasks))

\* A watcher whose listener and interval are removed is dropped from the list:
\* it has found the seed, or its timeout has fired, and a timeout that fires
\* after the seed was found does nothing.
RECURSIVE Collected(_)
Collected(tasks) ==
    IF tasks = <<>> THEN <<>>
    ELSE LET t == Head(tasks)
         IN  IF t.kind = "watchGameEvents" /\ ~t.watching
             THEN Collected(Tail(tasks))
             ELSE Placed(t, Collected(Tail(tasks)))

\* What the observer notes: the on-chain games the store's startGame(seed) was
\* invoked for, in order, and whether the session was abandoned while its seed
\* was awaited and the user has since neither initiated or resumed a game, nor
\* sent a transaction.
Observed(started, abandoned) ==
    [fn |-> "session", started |-> started, abandoned |-> abandoned]

InitSession ==
    /\ env = "session"
    /\ gameState = NoState
    /\ call = NoCall
    /\ probe = Observed(<<>>, FALSE)
    /\ store = IdleSession
    /\ timers = <<>>
    /\ chain = IdleChain

\* The store's startGame(seed), invoked for on-chain game gameId.
EngineStarted(seed) ==
    LET level == generateLevelFromSeed(seed)
    IN  PlanningState(seed, 1, level.player, level.enemies, 0)

\* checkActiveGame, its reads and what it sets taken as one step.
CheckActiveGame(abandoned) ==
    LET gameId == chain.activeGameId[SessionPlayer]
        game == GameAt(gameId)
    IN  IF gameId > 0 /\ game.status = "ACTIVE"
        THEN /\ store' = [store EXCEPT !.onChainStatus = "READY",
                                       !.onChainGameId = gameId]
             /\ gameState' = EngineStarted(game.seed)
             /\ probe' = Observed(Append(probe.started, gameId), abandoned)
             /\ UNCHANGED timers
        ELSE IF gameId > 0 /\ game.status = "WAITING_FOR_VRF"
        THEN /\ store' = [store EXCEPT !.onChainStatus = "WAITING_FOR_VRF",
                                       !.onChainGameId = gameId]
             /\ timers' = Collected(Append(timers, Watcher(FALSE, TRUE, FALSE, <<>>)))
             /\ probe' = Observed(probe.started, abandoned)
             /\ UNCHANGED gameState
        ELSE /\ probe' = Observed(probe.started, abandoned)
             /\ UNCHANGED <<store, timers, gameState>>

S_checkActiveGame ==
    /\ env = "session"
    /\ Len(timers) < MaxTasks
    /\ Len(probe.started) < MaxStarts
    /\ CheckActiveGame(FALSE)
    /\ UNCHANGED <<env, call, chain>>

\* initiateGameOnChain up to its first await: READY or WAITING_FOR_VRF runs
\* checkActiveGame and returns (checkActiveGame sets no other status), any
\* other status wipes the store and goes on to send the transaction.
S_initiateGameOnChain ==
    /\ env = "session"
    /\ Len(timers) < MaxTasks
    /\ Len(probe.started) < MaxStarts
    /\ IF store.onChainStatus \in {"READY", "WAITING_FOR_VRF"}
       THEN CheckActiveGame(FALSE)
       ELSE /\ gameState' = NoState
            /\ store' = SessionStore("REQUESTING_VRF", 0, "null")
            /\ timers' = Collected(Append(timers, Suspended("writeContract")))
            /\ probe' = Observed(probe.started, FALSE)
    /\ UNCHANGED <<env, call, chain>>

\* The contract's startGame() sent by the session's player with the fee paid,
\* as the chain stands when the transaction is mined.
StartGameMined ==
    LET existingGame == chain.activeGameId[SessionPlayer]
        gameId == chain.gameCounter + 1
    IN  IF existingGame # 0 /\ GameAt(existingGame).status \notin {"COMPLETED", "NONE"}
        THEN chain
        ELSE [gameCounter |-> gameId,
              games |-> Append(chain.games,
                  [player |-> SessionPlayer, seed |-> ZeroSeed, stateHash |-> ZeroHash,
                   currentTurn |-> 0, score |-> 0, status |-> "WAITING_FOR_VRF",
                   result |-> "CONTINUE"]),
              activeGameId |-> [chain.activeGameId EXCEPT ![SessionPlayer] = gameId],
              sequenceToGameId |-> Append(chain.sequenceToGameId, gameId)]

\* The startGame transaction of call i: writeContract throws (the wallet
\* refuses) and the catch reports it, or the transaction is submitted, the
\* store is set to WAITING_FOR_VRF, and the transaction is mined.
S_writeContract(i) ==
    /\ env = "session"
    /\ i \in DOMAIN timers
    /\ timers[i].kind = "initiateGameOnChain"
    /\ timers[i].pc = "writeContract"
    /\ chain.gameCounter < MaxGames
    /\ \E submitted \in BOOLEAN :
          IF submitted
          THEN /\ chain' = StartGameMined
               /\ store' = [store EXCEPT !.onChainStatus = "WAITING_FOR_VRF"]
               /\ timers' = Collected([timers EXCEPT
                                           ![i] = Suspended("waitForTransactionReceipt")])
               /\ call' = [made |-> TRUE, fn |-> "writeContract", reverted |-> chain' = chain,
                           onChainStatus |-> store.onChainStatus]
          ELSE /\ store' = [store EXCEPT !.onChainStatus = "ERROR",
                                         !.onChainError = "Failed to initiate game"]
               /\ timers' = RemoveAt(timers, i)
               /\ UNCHANGED <<call, chain>>
    /\ probe' = Observed(probe.started, FALSE)
    /\ UNCHANGED <<env, gameState>>

\* The receipt of call i's transaction is in: watchGameEvents(address).
S_watchGameEvents(i) ==
    /\ env = "session"
    /\ i \in DOMAIN timers
    /\ timers[i].kind = "initiateGameOnChain"
    /\ timers[i].pc = "waitForTransactionReceipt"
    /\ timers' = Collected([timers EXCEPT ![i] = Watcher(FALSE, TRUE, FALSE, <<>>)])
    /\ UNCHANGED <<env, gameState, call, probe, store, chain>>

\* The Entropy contract's callback for a waiting game: the seed is stored and
\* GameStarted goes to every listener installed for the player (a listener
\* that already has a log to handle is removed when it handles it, so a later
\* log is not kept for it).
S_entropyCallback ==
    /\ env = "session"
    /\ \E sequenceNumber \in DOMAIN chain.sequenceToGameId, randomNumber \in SessionSeeds :
          LET gameId == SequenceToGameId(sequenceNumber)
          IN  /\ gameId # 0
              /\ GameAt(gameId).status = "WAITING_FOR_VRF"
              /\ chain' = [chain EXCEPT
                     !.games[gameId] =
                         [@ EXCEPT !.seed = randomNumber,
                                   !.currentTurn = 1,
                                   !.status = "ACTIVE",
                                   !.stateHash = computeStateHash(
                                       [hp |-> DEFAULT_PLAYER_HP,
                                        maxHp |-> DEFAULT_PLAYER_HP, shield |-> 0],
                                       getDefaultEnemies, 1, 0)],
                     !.sequenceToGameId[sequenceNumber] = 0]
              /\ timers' = Collected([t \in DOMAIN timers |->
                               IF timers[t].watching /\ timers[t].logs = <<>>
                               THEN [timers[t] EXCEPT !.logs = <<gameId>>]
                               ELSE timers[t]])
              /\ call' = EntropyTx(FALSE, ENTROPY, sequenceNumber)
    /\ UNCHANGED <<env, gameState, probe, store>>

\* handleGameStart of watcher w (found is false): found, clearInterval, unwatch,
\* READY, startGame(seed).
handleGameStart(w, gameId, seed) ==
    /\ timers' = Collected([timers EXCEPT ![w] = Watcher(TRUE, FALSE, @.fired, <<>>)])
    /\ store' = [store EXCEPT !.onChainStatus = "READY", !.onChainGameId = gameId]
    /\ gameState' = EngineStarted(seed)
    /\ probe' = Observed(Append(probe.started, gameId), probe.abandoned)

\* onLogs of watcher w: the listener is still installed, so found is false; the
\* first log is handled and found makes handleGameStart return for the others.
S_onLogs(w) ==
    /\ env = "session"
    /\ w \in Watchers
    /\ timers[w].watching
    /\ timers[w].logs # <<>>
    /\ Len(probe.started) < MaxStarts
    /\ LET gameId == Head(timers[w].logs)
       IN  handleGameStart(w, gameId, GameAt(gameId).seed)
    /\ UNCHANGED <<env, call, chain>>

\* A tick of watcher w's poll that reads an ACTIVE game, its reads taken as
\* one step (a tick that reads anything else changes nothing).
S_poll(w) ==
    /\ env = "session"
    /\ w \in Watchers
    /\ timers[w].watching
    /\ Len(probe.started) < MaxStarts
    /\ LET gameId == chain.activeGameId[SessionPlayer]
           game == GameAt(gameId)
       IN  /\ gameId > 0
           /\ game.status = "ACTIVE"
           /\ handleGameStart(w, gameId, game.seed)
    /\ UNCHANGED <<env, call, chain>>

\* The timeout of watcher w.
S_timeout(w) ==
    /\ env = "session"
    /\ w \in Watchers
    /\ ~timers[w].fired
    /\ IF ~timers[w].found /\ store.onChainStatus = "WAITING_FOR_VRF"
       THEN /\ store' = [store EXCEPT !.onChainStatus = "ERROR",
                                      !.onChainError = "VRF callback timeout"]
            /\ timers' = Collected([timers EXCEPT ![w] = Watcher(FALSE, FALSE, TRUE, <<>>)])
       ELSE /\ timers' = Collected([timers EXCEPT ![w].fired = TRUE])
            /\ UNCHANGED store
    /\ UNCHANGED <<env, gameState, call, probe, chain>>

S_resetGame ==
    /\ env = "session"
    /\ gameState' = NoState
    /\ store' = IdleSession
    /\ probe' = Observed(probe.started,
                         IF store.onChainStatus \in SeedAwaited THEN TRUE
                         ELSE probe.abandoned /\ store.onChainStatus = "IDLE")
    /\ UNCHANGED <<env, call, timers, chain>>

\* forfeitGameOnChain, taken as one step: no game to forfeit, or the forfeitGame
\* transaction and what is set once its receipt is in, or its revert.
S_forfeitGameOnChain ==
    /\ env = "session"
    /\ LET gameId == IF store.onChainGameId # 0 THEN store.onChainGameId
                     ELSE chain.activeGameId[SessionPlayer]
       IN  IF gameId = 0
           THEN /\ store' = [store EXCEPT !.onChainError = "No active game found to forfeit"]
                /\ UNCHANGED <<gameState, call, probe, chain>>
           ELSE IF GameAt(gameId).status \in {"ACTIVE", "WAITING_FOR_VRF"}
           THEN /\ chain' = [chain EXCEPT !.games[gameId] =
                                [@ EXCEPT !.status = "COMPLETED", !.result = "DEFEAT"]]
                /\ call' = Tx("forfeitGame", FALSE)
                /\ store' = IdleSession
                /\ gameState' = NoState
                /\ probe' = Observed(probe.started,
                                     IF store.onChainStatus \in SeedAwaited THEN TRUE
                                     ELSE probe.abandoned /\ store.onChainStatus = "IDLE")
           ELSE /\ call' = Tx("forfeitGame", TRUE)
                /\ store' = [store EXCEPT !.onChainStatus = "ERROR",
                                          !.onChainError = "Failed to forfeit game"]
                /\ probe' = Observed(probe.started, FALSE)
                /\ UNCHANGED <<gameState, chain>>
    /\ UNCHANGED <<env, timers>>

NextSession ==
    \/ S_initiateGameOnChain
    \/ S_checkActiveGame
    \/ \E i \in 1..MaxTasks : S_writeContract(i)
    \/ \E i \in 1..MaxTasks : S_watchGameEvents(i)
    \/ S_entropyCallback
    \/ \E w \in 1..MaxTasks : S_onLogs(w)
    \/ \E w \in 1..MaxTasks : S_poll(w)
    \/ \E w \in 1..MaxTasks : S_timeout(w)
    \/ S_resetGame
    \/ S_forfeitGameOnChain

SpecSession == InitSession /\ [][NextSession]_vars

Init == InitHelpers \/ InitEngine \/ InitStore \/ InitChain \/ InitSession

Next == NextHelpers \/ NextEngine \/ NextStore \/ NextChain \/ NextSession

Spec == Init /\ [][Next]_vars

(***************************************************************************)
(* Properties of the engine and the verifier.                              *)
(***************************************************************************)
EngineCall == call.made /\ call.fn = "resolveTurn"

BothAccepted == EngineCall /\ ~call.threw /\ ~call.verifier.reverted

ClientResult(state) ==
    IF state.status # "RESOLVED" THEN "CONTINUE"
    ELSE IF state.player.hp <= 0 THEN "DEFEAT" ELSE "VICTORY"

LiveHp(enemies) ==
    LET live == SelectSeqBy(enemies, {e \in Range(enemies) : e.hp > 0})
    IN  [i \in DOMAIN live |-> live[i].hp]

\* C1: for every input both accept, the client resolveTurn and the verifier
\* resolveTurn give the same next player hp and shield, the same hp of the
\* enemies left standing, the same score and the same turn result.
C1_ClientAndVerifierAgree ==
    BothAccepted =>
        /\ call.output.player.hp = call.verifier.newPlayer.hp
        /\ call.output.player.shield = call.verifier.newPlayer.shield
        /\ LiveHp(call.output.enemies) = LiveHp(call.verifier.newEnemies)
        /\ call.output.score = call.verifier.newScore
        /\ ClientResult(call.output) = call.verifier.result

\* Whether the list names every packet of the hand exactly once and nothing else.
NamesEveryPacketOnce(hand, assignments) ==
    /\ \A k \in DOMAIN hand :
          Cardinality({i \in DOMAIN assignments : assignments[i].packetId = hand[k].id}) = 1
    /\ \A i \in DOMAIN assignments :
          \E k \in DOMAIN hand : assignments[i].packetId = hand[k].id

\* C2: a turn resolves only when the assignment list names every packet of the
\* hand exactly once; a list with a missing, duplicated or unknown packet is
\* rejected by validateAssignments, by resolveTurn and by the verifier.
C2_OnlyCompleteListsResolve ==
    (EngineCall /\ ~NamesEveryPacketOnce(call.input.dataStream, call.assignments)) =>
        /\ ~validateAssignments(call.input, call.assignments)
        /\ call.threw
        /\ call.verifier.reverted

\* C2, client half: validateAssignments and resolveTurn refuse every list that
\* does not name every packet of the hand exactly once.
C2_ClientOnlyCompleteListsResolve ==
    (EngineCall /\ ~NamesEveryPacketOnce(call.input.dataStream, call.assignments)) =>
        /\ ~validateAssignments(call.input, call.assignments)
        /\ call.threw

\* C4: resolveTurn leaves its input as it was, whether it resolves or rejects,
\* and what it returns is another object than the input.
C4_InputNotMutated ==
    EngineCall => /\ call.inputAfter = call.input
                 /\ ~call.outputIsInput

C4_Witness ==
    /\ EngineCall
    /\ ~call.threw
    /\ call.output.player # call.input.player
    /\ call.output.enemies # call.input.enemies
    /\ call.output.score # call.input.score

\* C6: the client and the verifier hash the same preimage: the 32 seed bytes,
\* the ASCII text 'Turn', then the turn number in decimal ASCII digits.
C6_SamePreimage ==
    probe.fn = "deriveHand" =>
        LET expected == probe.levelSeed \o <<84, 117, 114, 110>> \o DecimalDigits(probe.turn)
        IN  /\ probe.preimage = expected
            /\ probe.v_preimage = expected

\* C7: packet i takes its kind from sub-seed byte (2i mod 32) and its rarity
\* from byte ((2i + 1) mod 32), in the client and in the verifier's deriveHand.
C7_KindAndRarityBytes ==
    probe.fn = "deriveHand" =>
        /\ \A k \in DOMAIN probe.packets :
              /\ probe.packets[k].byteValue = probe.turnSeed[((2 * (k - 1)) % 32) + 1]
              /\ probe.packets[k].rarity =
                    LET r == probe.turnSeed[((2 * (k - 1) + 1) % 32) + 1]
                    IN  IF r > 240 THEN "LEGENDARY" ELSE IF r > 200 THEN "RARE" ELSE "COMMON"
        /\ \A k \in DOMAIN probe.v_hand :
              probe.v_hand[k].byteValue = probe.v_turnSeed[((2 * (k - 1)) % 32) + 1]

\* C8: bytes 0..19 are MISS, 20..150 ATTACK, 151..200 DEFEND, 201..240 CRIT and
\* 241..255 HEAL, and the client and the verifier agree on every byte.
C8_ByteRanges ==
    probe.fn = "mapByteToPacketType" =>
        /\ probe.client = (IF probe.byte \in 0..19 THEN "MISS"
                           ELSE IF probe.byte \in 20..150 THEN "ATTACK"
                           ELSE IF probe.byte \in 151..200 THEN "DEFEND"
                           ELSE IF probe.byte \in 201..240 THEN "CRIT"
                           ELSE "HEAL")
        /\ probe.verifier = probe.client

C8_Witness ==
    /\ probe.fn = "mapByteToPacketType"
    /\ probe.byte = 241
    /\ probe.client = "HEAL"
    /\ probe.verifier = "HEAL"

\* C3: a rejected resolveTurn returns no state and leaves its input as it was,
\* score, player and jackpot flag included; the same call on the same input is
\* rejected again; in the store an executeTurn that fails (it returns at its
\* guard, or its resolution throws) leaves gameState and pendingAssignments as
\* they were.
C3_RejectionResolvesNothing ==
    /\ []((EngineCall /\ call.threw) =>
            /\ call.output = NoState
            /\ call.inputAfter = call.input
            /\ resolveTurn(<<call.inputAfter>>, 1, call.assignments).threw)
    /\ [][(/\ env = "store"
           /\ call'.made
           /\ \/ call'.fn = "executeTurn" /\ ~call'.scheduled
              \/ call'.fn = "resolveTimer" /\ call'.threw)
          => /\ gameState' = gameState
             /\ store'.pendingAssignments = store.pendingAssignments]_vars

C3_Witness ==
    /\ EngineCall
    /\ call.threw
    /\ call.input.jackpotHit
    /\ call.input.anomaly = "DATA_LEAK"
    /\ call.input.player.hp < call.input.player.maxHp

\* C9: once a session has resolved to VICTORY or DEFEAT, a further resolveTurn
\* on the resolved state, and a further executeTurn in the store, leave
\* turnCounter, score, player and enemies as they were.
C9_ResolvedIsTerminal ==
    /\ (EngineCall /\ call.input.status = "RESOLVED" /\ ~call.threw) =>
          /\ call.output.turnCounter = call.input.turnCounter
          /\ call.output.score = call.input.score
          /\ call.output.player = call.input.player
          /\ call.output.enemies = call.input.enemies
    /\ (/\ env = "store"
        /\ call.made
        /\ call.fn = "resolveTimer"
        /\ ~call.threw
        /\ call.input.status = "RESOLVED") =>
          /\ gameState.turnCounter = call.input.turnCounter
          /\ gameState.score = call.input.score
          /\ gameState.player = call.input.player
          /\ gameState.enemies = call.input.enemies

KindAimedAt(hand, assignments, kind, targetId) ==
    \E i \in DOMAIN assignments :
        /\ assignments[i].targetId = targetId
        /\ \E k \in DOMAIN hand :
              hand[k].id = assignments[i].packetId /\ hand[k].type = kind

\* C11: the CACHE_GOLD cache loses hp only when a CRIT packet is assigned to it:
\* a resolution whose list aims no CRIT packet at a live cache returns the cache
\* with the hp it had, whatever else the turn applied.
C11_CacheLosesHpOnlyByCrit ==
    (EngineCall /\ ~call.threw) =>
        \A i \in DOMAIN call.input.enemies :
            LET cache == call.input.enemies[i]
            IN  (/\ cache.type = "CACHE_GOLD"
                 /\ cache.hp > 0
                 /\ ~KindAimedAt(call.input.dataStream, call.assignments,
                                 "CRIT", cache.id))
                => \E j \in DOMAIN call.output.enemies :
                      /\ call.output.enemies[j].id = cache.id
                      /\ call.output.enemies[j].hp = cache.hp

\* C12: damage to the player is absorbed shield-first: with shield s, hp h and
\* damage d, if d <= s the shield becomes s - d and hp stays h, and if d > s the
\* shield becomes 0 and hp becomes max(0, h - (d - s)); the client's and the
\* verifier's applyDamageToPlayer give the same player for all s, h, d.
C12_ShieldAbsorbsFirst ==
    probe.fn = "applyDamageToPlayer" =>
        LET s == probe.player.shield
            h == probe.player.hp
            d == probe.damage
            expected == IF d <= s
                        THEN [probe.player EXCEPT !.shield = s - d]
                        ELSE [probe.player EXCEPT !.shield = 0,
                                                  !.hp = IF h > d - s THEN h - (d - s) ELSE 0]
        IN  /\ probe.client = expected
            /\ probe.verifier = probe.client

C12_Witness ==
    /\ probe.fn = "applyDamageToPlayer"
    /\ probe.player.shield = 1
    /\ probe.player.hp = 2
    /\ probe.damage = 4
    /\ probe.client.shield = 0
    /\ probe.client.hp = 0
    /\ probe.verifier = probe.client

\* The probe applied an ATTACK or CRIT packet to enemy-0, which is not immune.
HitOnPlainEnemy ==
    /\ probe.fn = "applyPacketEffect"
    /\ probe.packet.type \in {"ATTACK", "CRIT"}
    /\ probe.targetId = "enemy-0"

\* C13: overkill is discarded: an ATTACK or CRIT packet applied to a non-immune
\* enemy leaves it max(0, hp - magnitude) hp (the client's magnitude is the
\* effective value, the verifier's the packet value) and changes neither another
\* enemy nor the player; no enemy a resolution returns has negative hp.
C13_OverkillDiscarded ==
    /\ HitOnPlainEnemy =>
          /\ probe.client.enemies =
                [probe.state.enemies EXCEPT
                    ![1].hp = IF @ > probe.effectiveValue
                              THEN @ - probe.effectiveValue ELSE 0]
          /\ probe.client.player = probe.state.player
          /\ ~probe.verifier.reverted
          /\ probe.verifier.enemies =
                [ToVerifierEnemies(probe.state.enemies) EXCEPT
                    ![1].hp = IF @ > probe.v_packet.value
                              THEN @ - probe.v_packet.value ELSE 0]
          /\ probe.verifier.player = ToVerifierPlayer(probe.state.player)
    /\ (EngineCall /\ ~call.threw) =>
          \A i \in DOMAIN call.output.enemies : call.output.enemies[i].hp >= 0
    /\ (EngineCall /\ ~call.verifier.reverted) =>
          \A i \in DOMAIN call.verifier.newEnemies : call.verifier.newEnemies[i].hp >= 0

\* A CRIT (15) on the Drone the test left with 2 hp.
C13_Witness ==
    /\ HitOnPlainEnemy
    /\ probe.packet.type = "CRIT"
    /\ probe.state.enemies[1].hp = 2
    /\ probe.effectiveValue > 2
    /\ probe.client.enemies[1].hp = 0
    /\ probe.verifier.enemies[1].hp = 0

PlayerInRange(player) ==
    /\ 0 <= player.hp
    /\ player.hp <= player.maxHp
    /\ player.shield >= 0

\* hp after healing by amount, capped at maxHp.
Healed(player, amount) ==
    IF player.hp + amount > player.maxHp THEN player.maxHp ELSE player.hp + amount

\* What the enemies alive and attacking take from hp once the shield is used up.
AttackThrough(enemies, shield) ==
    LET attack == SeqSum([i \in DOMAIN enemies |->
                            IF enemies[i].hp > 0 /\ enemies[i].intent = "ATTACK"
                            THEN enemies[i].damage ELSE 0])
    IN  IF attack > shield THEN attack - shield ELSE 0

\* C14: the player of every state a session holds and of every state a
\* resolution returns (client and verifier) has 0 <= hp <= maxHp and
\* shield >= 0; a HEAL packet on the player sets hp to min(hp + amount, maxHp),
\* and so does the DATA_LEAK regeneration of 5 (seen on a turn that trashes
\* every packet: the hp returned is the regenerated hp less the enemy phase).
C14_PlayerStaysInRange ==
    /\ gameState # NoState => PlayerInRange(gameState.player)
    /\ (EngineCall /\ ~call.threw) => PlayerInRange(call.output.player)
    /\ (EngineCall /\ ~call.verifier.reverted) => PlayerInRange(call.verifier.newPlayer)
    /\ \A g \in DOMAIN chain.games :
          chain.games[g].stateHash # ZeroHash =>
              PlayerInRange(CommittedPlayer(chain.games[g].stateHash))
    /\ (/\ probe.fn = "applyPacketEffect"
        /\ probe.packet.type = "HEAL"
        /\ probe.targetId = "player") =>
          /\ probe.client.player =
                [probe.state.player EXCEPT
                    !.hp = Healed(probe.state.player, probe.effectiveValue)]
          /\ ~probe.verifier.reverted
          /\ probe.verifier.player =
                [ToVerifierPlayer(probe.state.player) EXCEPT
                    !.hp = Healed(probe.state.player, probe.v_packet.value)]
    /\ (/\ EngineCall
        /\ ~call.threw
        /\ call.input.anomaly = "DATA_LEAK"
        /\ \A i \in DOMAIN call.assignments : call.assignments[i].targetId = "trash") =>
          LET healed == Healed(call.input.player, 5)
              through == AttackThrough(call.input.enemies, call.input.player.shield)
          IN  call.output.player.hp = IF healed > through THEN healed - through ELSE 0

\* A LEGENDARY HEAL (20) on a player at 95 of 100 hp.
C14_Witness ==
    /\ probe.fn = "applyPacketEffect"
    /\ probe.packet.type = "HEAL"
    /\ probe.targetId = "player"
    /\ probe.state.player.hp = 95
    /\ probe.effectiveValue = 20
    /\ probe.client.player.hp = 100
    /\ probe.verifier.player.hp = 100

\* Every enemy of `after` is an enemy of `before` with no more hp than it had.
NoneNewNoneStronger(before, after) ==
    \A j \in DOMAIN after :
        \E i \in DOMAIN before :
            /\ before[i].id = after[j].id
            /\ after[j].hp <= before[i].hp

\* C15: the enemy list a successful resolveTurn returns holds only enemies with
\* hp > 0, each one an enemy of the input list with no more hp than it had;
\* along a session (the states a caller takes from one resolveTurn to the next)
\* the enemies of each state are enemies of the state before it with no more
\* hp, so that a removed enemy never comes back.
C15_DeadEnemiesStayRemoved ==
    /\ []((EngineCall /\ ~call.threw) =>
            /\ \A j \in DOMAIN call.output.enemies : call.output.enemies[j].hp > 0
            /\ NoneNewNoneStronger(call.input.enemies, call.output.enemies))
    /\ [][env = "engine" =>
            NoneNewNoneStronger(gameState.enemies, gameState'.enemies)]_vars

\* A second turn that removed an enemy the first turn had left alive.
C15_Witness ==
    /\ EngineCall
    /\ ~call.threw
    /\ call.input.turnCounter = 2
    /\ gameState = call.output
    /\ Len(call.output.enemies) < Len(call.input.enemies)

\* C16: an assignment aimed at an enemy that does not exist or is already dead
\* (hp 0, one killed in an earlier turn included) is rejected: the client's
\* validateAssignments refuses the list and resolveTurn throws, and an on-chain
\* submitTurn whose list aims a packet at an enemy with hp 0 reverts.
C16_DeadOrMissingTargetRejected ==
    /\ EngineCall =>
          \A i \in DOMAIN call.assignments :
              LET targetId == call.assignments[i].targetId
                  e == FindById(call.input.enemies, targetId)
              IN  (/\ targetId \notin {"player", "trash"}
                   /\ (e = 0 \/ call.input.enemies[e].hp <= 0))
                  => /\ ~validateAssignments(call.input, call.assignments)
                     /\ call.threw
                     /\ call.verifier.reverted
    /\ (env = "chain" /\ call.made /\ call.fn = "submitTurn") =>
          \A i \in DOMAIN call.assignments :
              LET enemyIndex == call.assignments[i].targetType - 2
              IN  (/\ enemyIndex >= 0
                   /\ (\/ ~(enemyIndex < Len(call.enemies))
                       \/ call.enemies[enemyIndex + 1].hp = 0))
                  => call.reverted

\* C17: checkTurnResult is DEFEAT when the player's hp is 0 (even when no enemy
\* is left), otherwise VICTORY when no enemy has hp > 0, otherwise CONTINUE, and
\* the client and the verifier give the same result on every state.
C17_ResultOrder ==
    probe.fn = "checkTurnResult" =>
        LET expected ==
                IF probe.state.player.hp = 0 THEN "DEFEAT"
                ELSE IF ~\E i \in DOMAIN probe.state.enemies :
                            probe.state.enemies[i].hp > 0
                     THEN "VICTORY"
                ELSE "CONTINUE"
        IN  /\ probe.client = expected
            /\ probe.verifier = probe.client

\* The player at 0 hp with every enemy dead too.
C17_Witness ==
    /\ probe.fn = "checkTurnResult"
    /\ probe.state.player.hp = 0
    /\ Len(probe.state.enemies) = 2
    /\ \A i \in DOMAIN probe.state.enemies : probe.state.enemies[i].hp = 0
    /\ probe.client = "DEFEAT"
    /\ probe.verifier = "DEFEAT"

\* 500 for a VICTORY and 200 more when hp equals maxHp, nothing otherwise.
VictoryBonus(result, player) ==
    IF result = "VICTORY"
    THEN 500 + (IF player.hp = player.maxHp THEN 200 ELSE 0)
    ELSE 0

\* 100 for every enemy of the input with hp > 0 that the given set of survivors
\* lacks, and 1000 more when it is the cache.
KillPoints(enemies, isCache, survivors) ==
    SeqSum([i \in DOMAIN enemies |->
                IF enemies[i].hp > 0 /\ i \notin survivors
                THEN 100 + (IF isCache[i] THEN 1000 ELSE 0)
                ELSE 0])

\* C18: a resolution adds exactly 100 to the score for each enemy whose hp goes
\* from > 0 to 0 through the turn's packets, plus 1000 more for the cache, in
\* the client and in the verifier.  The verifier changes enemy hp through
\* packets only; the client is read on turns without ION_STORM, where the
\* enemies missing from the returned list are the ones the packets killed.
\* What is left of the score change once the jackpot and the VICTORY bonus are
\* taken off is the kill score.
C18_KillScore ==
    /\ (EngineCall /\ ~call.threw /\ call.input.anomaly # "ION_STORM") =>
          call.output.score - call.input.score
              - (IF call.input.jackpotHit THEN 5000 ELSE 0)
              - VictoryBonus(ClientResult(call.output), call.output.player)
          = KillPoints(call.input.enemies,
                       [i \in DOMAIN call.input.enemies |->
                            call.input.enemies[i].type = "CACHE_GOLD"],
                       {i \in DOMAIN call.input.enemies :
                            FindById(call.output.enemies, call.input.enemies[i].id) # 0})
    /\ (EngineCall /\ ~call.verifier.reverted) =>
          call.verifier.newScore - call.input.score
              - VictoryBonus(call.verifier.result, call.verifier.newPlayer)
          = KillPoints(call.input.enemies,
                       [i \in DOMAIN call.input.enemies |->
                            call.input.enemies[i].type = "CACHE_GOLD"],
                       {i \in DOMAIN call.verifier.newEnemies :
                            call.verifier.newEnemies[i].hp > 0})

\* C18, client half: the kill score of the client's resolveTurn.
C18_ClientKillScore ==
    (EngineCall /\ ~call.threw /\ call.input.anomaly # "ION_STORM") =>
        call.output.score - call.input.score
            - (IF call.input.jackpotHit THEN 5000 ELSE 0)
            - VictoryBonus(ClientResult(call.output), call.output.player)
        = KillPoints(call.input.enemies,
                     [i \in DOMAIN call.input.enemies |->
                          call.input.enemies[i].type = "CACHE_GOLD"],
                     {i \in DOMAIN call.input.enemies :
                          FindById(call.output.enemies, call.input.enemies[i].id) # 0})

\* The client's score once the jackpot and the kills of the turn are counted,
\* before the result of the turn is looked at.
ScoreBeforeBonus(state, assignments) ==
    LET started == StartOfTurn(state)
    IN  started.score
        + KillScore(ApplyAssignments(started, assignments).state.enemies, state.enemies)

\* The verifier's score once the kills of the turn are counted.
V_ScoreBeforeBonus(initialEnemies, newEnemies, initialScore) ==
    initialScore
    + V_KillScore(V_InitialEnemiesAtScoring(initialEnemies, newEnemies), newEnemies, 1)

\* C19: a resolution whose result is VICTORY adds 500 to the score and 200 more
\* exactly when the player's hp equals maxHp at the end of the resolution; one
\* that ends in CONTINUE or DEFEAT adds neither (client and verifier).
C19_VictoryBonus ==
    /\ (EngineCall /\ ~call.threw) =>
          call.output.score - ScoreBeforeBonus(call.input, call.assignments)
          = (IF ClientResult(call.output) # "VICTORY" THEN 0
             ELSE IF call.output.player.hp = call.output.player.maxHp THEN 700
             ELSE 500)
    /\ (EngineCall /\ ~call.verifier.reverted) =>
          call.verifier.newScore
              - V_ScoreBeforeBonus(ToVerifierEnemies(call.input.enemies),
                                   call.verifier.newEnemies, call.input.score)
          = (IF call.verifier.result # "VICTORY" THEN 0
             ELSE IF call.verifier.newPlayer.hp = call.verifier.newPlayer.maxHp THEN 700
             ELSE 500)

\* A flawless VICTORY of the client.
C19_Witness ==
    /\ EngineCall
    /\ ~call.threw
    /\ ClientResult(call.output) = "VICTORY"
    /\ call.output.player.hp = call.output.player.maxHp
    /\ call.output.score = ScoreBeforeBonus(call.input, call.assignments) + 700

\* The magnitude table: base by kind, the rarity multiplier written out value by
\* value, and 5 more for an ATTACK under OVERCLOCK.
Magnitude(kind, rarity, anomaly) ==
    LET base == CASE kind = "MISS" -> 0
                  [] kind = "ATTACK" -> 5
                  [] kind = "DEFEND" -> 5
                  [] kind = "CRIT" -> 15
                  [] kind = "HEAL" -> 10
        byRarity == CASE rarity = "COMMON" -> base
                      [] rarity = "RARE" -> (CASE base = 0 -> 0
                                               [] base = 5 -> 7
                                               [] base = 10 -> 15
                                               [] base = 15 -> 22)
                      [] rarity = "LEGENDARY" -> 2 * base
    IN  IF kind = "ATTACK" /\ anomaly = "OVERCLOCK" THEN byRarity + 5 ELSE byRarity

ShieldThenHp(player, damage) ==
    IF damage <= player.shield
    THEN [player EXCEPT !.shield = @ - damage]
    ELSE [player EXCEPT !.shield = 0,
                        !.hp = IF @ > damage - player.shield
                               THEN @ - (damage - player.shield) ELSE 0]

\* The probe applied an ATTACK or CRIT packet to the player.
HitOnPlayer ==
    /\ probe.fn = "applyPacketEffect"
    /\ probe.packet.type \in {"ATTACK", "CRIT"}
    /\ probe.targetId = "player"

\* C21: an ATTACK or CRIT packet assigned to the player damages the player by
\* the packet's magnitude, shield first and hp after, in the client's
\* applyPacketEffect and in the verifier's applyPacketToPlayer.
C21_SelfHitDamagesPlayer ==
    HitOnPlayer =>
        /\ probe.client.player = ShieldThenHp(probe.state.player, probe.effectiveValue)
        /\ ~probe.verifier.reverted
        /\ probe.verifier.player =
              ShieldThenHp(ToVerifierPlayer(probe.state.player), probe.v_packet.value)

\* C21, client half: applyPacketEffect damages the player by the effective
\* value, shield first.
C21_ClientSelfHitDamagesPlayer ==
    HitOnPlayer =>
        probe.client.player = ShieldThenHp(probe.state.player, probe.effectiveValue)

\* C22: committing a state with its enemy list in another order gives the same
\* commitment input, for the client's serializeStateForHash and for the
\* verifier's computeStateHash.
C22_CommitIgnoresEnemyOrder ==
    (probe.fn = "commit" /\ probe.change = "permuted") =>
        /\ probe.clientOther = probe.client
        /\ probe.verifierOther = probe.verifier

\* C22, client half: serializeStateForHash gives the same string for every
\* order of the enemy list.
C22_ClientCommitIgnoresEnemyOrder ==
    (probe.fn = "commit" /\ probe.change = "permuted") =>
        probe.clientOther = probe.client

\* The changes that touch a committed field: player.hp, player.shield, an
\* enemy's id or hp, turnCounter, score.
CommittedFieldChanges ==
    {"score", "turnCounter", "playerHp", "playerShield", "enemyHp", "enemyId"}

\* C23: the commitment input is a function of exactly player.hp, player.shield,
\* each enemy's id and hp, turnCounter and score: a change of one of these
\* fields (score alone, say) changes it, and a change of any other field leaves
\* it as it was, in serializeStateForHash and in computeStateHash.
C23_CommitOfExactlyTheseFields ==
    (probe.fn = "commit" /\ probe.change # "permuted") =>
        IF probe.change \in CommittedFieldChanges
        THEN /\ probe.clientOther # probe.client
             /\ probe.verifierOther # probe.verifier
        ELSE /\ probe.clientOther = probe.client
             /\ probe.verifierOther = probe.verifier

\* 6, 7, 5, 6, 7, 5, ... from turn 1 on.
HandSizeOfTurn(turn) ==
    CASE turn % 3 = 1 -> 6
      [] turn % 3 = 2 -> 7
      [] turn % 3 = 0 -> 5

\* C24: for every turn >= 1 the hand derived has 5 + (turn mod 3) packets (6, 7,
\* 5 and so on with period 3), in the client and in the verifier.
C24_HandSize ==
    probe.fn = "deriveHand" =>
        /\ probe.turn >= 1
        /\ Len(probe.packets) = HandSizeOfTurn(probe.turn)
        /\ Len(probe.v_hand) = HandSizeOfTurn(probe.turn)

\* Turn 11: a hand of 7 in the fourth period.
C24_Witness ==
    /\ probe.fn = "deriveHand"
    /\ probe.turn = 11
    /\ Len(probe.packets) = 7
    /\ Len(probe.v_hand) = 7

\* C25: deriving a hand for a turn below 1 fails and yields no packets: the
\* client's calculatePacketCount and derivePacketsFromSeed throw, and the
\* verifier's deriveHand reverts.
C25_TurnBelowOneFails ==
    probe.fn = "turnBelowOne" =>
        /\ probe.countThrew
        /\ probe.threw
        /\ probe.packets = <<>>
        /\ probe.v_called => (probe.v_reverted /\ probe.v_hand = <<>>)

\* C25, client half: calculatePacketCount and derivePacketsFromSeed throw for a
\* turn below 1.
C25_ClientTurnBelowOneFails ==
    probe.fn = "turnBelowOne" =>
        /\ probe.countThrew
        /\ probe.threw
        /\ probe.packets = <<>>

\* The probe applied a packet that is to change nothing: any packet sent to the
\* trash, a MISS on any target, a DEFEND or HEAL on an enemy.
NoEffectCase ==
    /\ probe.fn = "applyPacketEffect"
    /\ \/ probe.targetId = "trash"
       \/ probe.packet.type = "MISS"
       \/ /\ probe.packet.type \in {"DEFEND", "HEAL"}
          /\ probe.targetId \notin {"player", "trash"}

\* C26: a packet assigned to the trash, a MISS packet on any target, and a
\* DEFEND or HEAL packet assigned to an enemy leave the player's hp and shield
\* and every enemy's hp as they were.
C26_NoEffectCases ==
    NoEffectCase =>
        /\ probe.client.player.hp = probe.state.player.hp
        /\ probe.client.player.shield = probe.state.player.shield
        /\ Len(probe.client.enemies) = Len(probe.state.enemies)
        /\ \A i \in DOMAIN probe.state.enemies :
              probe.client.enemies[i].hp = probe.state.enemies[i].hp

\* A LEGENDARY HEAL sent to the Drone at 2 of 20 hp.
C26_Witness ==
    /\ NoEffectCase
    /\ probe.packet.type = "HEAL"
    /\ probe.packet.rarity = "LEGENDARY"
    /\ probe.targetId = "enemy-0"
    /\ probe.state.enemies[1].hp = 2
    /\ probe.client = probe.state


(***************************************************************************)
(* C30: an on-chain game's seed is written exactly once, by                *)
(* _entropyCallback called by the Entropy contract for the game's sequence *)
(* number while the game is WAITING_FOR_VRF, and never changes afterwards; *)
(* a second callback for a sequence number, a callback from another caller *)
(* and a callback for a game forfeited while waiting revert and leave the  *)
(* contract's storage as it was.                                           *)
(***************************************************************************)
\* The callback about to be recorded is one the claim says is rejected.
RejectedCallback ==
    /\ call'.fn = "_entropyCallback"
    /\ \/ call'.sender # ENTROPY
       \/ /\ call'.sequenceNumber \in DOMAIN chain.sequenceToGameId
          /\ \/ chain.sequenceToGameId[call'.sequenceNumber] = 0
             \/ chain.games[chain.sequenceToGameId[call'.sequenceNumber]].status
                    = "COMPLETED"

SeedWrittenOnce ==
    /\ \A g \in DOMAIN chain.games :
          chain'.games[g].seed # chain.games[g].seed =>
              /\ chain.games[g].seed = ZeroSeed
              /\ chain.games[g].status = "WAITING_FOR_VRF"
              /\ chain'.games[g].status = "ACTIVE"
              /\ call'.fn = "_entropyCallback"
              /\ call' = EntropyTx(FALSE, ENTROPY, call'.sequenceNumber)
              /\ call'.sequenceNumber \in DOMAIN chain.sequenceToGameId
              /\ chain.sequenceToGameId[call'.sequenceNumber] = g
    /\ \A g \in DOMAIN chain.games :
          chain'.games[g].status = "WAITING_FOR_VRF" =>
              chain.games[g].status = "WAITING_FOR_VRF"
    /\ \A g \in DOMAIN chain'.games \ DOMAIN chain.games :
          chain'.games[g].seed = ZeroSeed /\ chain'.games[g].status = "WAITING_FOR_VRF"
    /\ RejectedCallback => call'.reverted /\ chain' = chain

C30_SeedWrittenOnce ==
    /\ [](env = "chain" =>
            \A g \in DOMAIN chain.games :
                /\ chain.games[g].status = "WAITING_FOR_VRF" =>
                        chain.games[g].seed = ZeroSeed
                /\ chain.games[g].status = "ACTIVE" =>
                        chain.games[g].seed \in EntropySeeds)
    /\ [][env = "chain" => SeedWrittenOnce]_vars

\* The Entropy contract's callback for a game that was forfeited while it
\* waited has been rejected.
C30_Witness ==
    /\ env = "chain"
    /\ call.made /\ call.fn = "_entropyCallback"
    /\ call = EntropyTx(TRUE, ENTROPY, call.sequenceNumber)
    /\ call.sequenceNumber \in DOMAIN chain.sequenceToGameId
    /\ chain.sequenceToGameId[call.sequenceNumber] # 0
    /\ LET game == chain.games[chain.sequenceToGameId[call.sequenceNumber]]
       IN  game.status = "COMPLETED" /\ game.seed = ZeroSeed


(***************************************************************************)
(* C27: at most one seed request is in flight per session, and the store's *)
(* startGame(seed) is invoked at most once per on-chain game: no startGame *)
(* transaction is sent while the status is WAITING_FOR_VRF (the request    *)
(* that set it being the first), and no on-chain game is noted twice among *)
(* the games the engine was started for.                                   *)
(***************************************************************************)
C27_OneRequestInFlight ==
    env = "session" /\ call.made /\ call.fn = "writeContract" =>
        call.onChainStatus # "WAITING_FOR_VRF"

C27_EngineStartedOncePerGame ==
    env = "session" =>
        \A i, j \in DOMAIN probe.started :
            i # j => probe.started[i] # probe.started[j]

C27_OneRequestOneStart == C27_OneRequestInFlight /\ C27_EngineStartedOncePerGame

(***************************************************************************)
(* C28: a seed wait is bounded: every watcher stops its event listener and *)
(* its poll when it finds the seed or when its timeout fires, so a watcher *)
(* whose timeout has fired without the seed found has removed both.        *)
(***************************************************************************)
C28_TimeoutStopsWatcher ==
    env = "session" =>
        \A w \in Watchers :
            timers[w].fired /\ ~timers[w].found => ~timers[w].watching

(***************************************************************************)
(* C29: after a session is abandoned while its seed is awaited (resetGame  *)
(* or a successful forfeitGameOnChain), and until the user initiates a     *)
(* game again, gameState stays null and onChainStatus stays IDLE whatever  *)
(* event, poll result or timeout arrives.                                  *)
(***************************************************************************)
C29_AbandonedStaysIdle ==
    env = "session" /\ probe.abandoned =>
        gameState = NoState /\ store.onChainStatus = "IDLE"


(***************************************************************************)
(* C31: a game is recorded as COMPLETED with result VICTORY only if its    *)
(* turns resolved to VICTORY: the state its stateHash commits to has a     *)
(* living player and no living enemy.                                      *)
(***************************************************************************)
C31_VictoryOnlyForWonRound ==
    env = "chain" =>
        \A g \in DOMAIN chain.games :
            chain.games[g].status = "COMPLETED" /\ chain.games[g].result = "VICTORY" =>
                /\ chain.games[g].stateHash # ZeroHash
                /\ CommittedPlayer(chain.games[g].stateHash).hp > 0
                /\ \A k \in DOMAIN CommittedEnemies(chain.games[g].stateHash) :
                      CommittedEnemies(chain.games[g].stateHash)[k].hp = 0


(***************************************************************************)
(* C32: the outcome of a resolution is the one evaluated right after the   *)
(* packet effects and the removal of the dead: with the player alive and   *)
(* no enemy left at that point the resolution ends RESOLVED in VICTORY     *)
(* with the victory bonus, whatever the anomaly, and with an enemy left at *)
(* that point it is not a VICTORY.                                         *)
(***************************************************************************)
Resolved == probe.fn = "resolveTurn" /\ ~probe.threw

C32_OutcomeSetAfterPackets ==
    Resolved =>
        /\ probe.afterPackets.player.hp > 0 /\ probe.afterPackets.enemies = <<>> =>
              /\ ClientResult(probe.output) = "VICTORY"
              /\ probe.output.score >= probe.afterPackets.score + 500
        /\ probe.afterPackets.enemies # <<>> =>
              ClientResult(probe.output) # "VICTORY"

\* The same of the verifier, which keeps the dead in its array.
C32_VerifierOutcomeSetAfterPackets ==
    probe.fn = "resolveTurn" /\ ~probe.v_afterPackets.reverted =>
        LET mid == probe.v_afterPackets
            left == {i \in DOMAIN mid.enemies : mid.enemies[i].hp > 0}
        IN  /\ mid.player.hp > 0 /\ left = {} => probe.verifier.result = "VICTORY"
            /\ left # {} => probe.verifier.result # "VICTORY"


(***************************************************************************)
(* C33: the sub-seed byte positions that select the anomaly (12) and the   *)
(* jackpot flag (31) are not among the positions the packets of the turn   *)
(* are derived from, for every turn and hand size.                         *)
(***************************************************************************)
ConsumedPositions(packetCount) ==
    {TypeByteIndex(i) : i \in 0..(packetCount - 1)}
        \cup {RarityByteIndex(i) : i \in 0..(packetCount - 1)}

C33_AnomalyAndJackpotBytesApart ==
    probe.fn = "deriveHand" =>
        /\ 12 \notin ConsumedPositions(Len(probe.packets))
        /\ 31 \notin ConsumedPositions(Len(probe.packets))

\* What does hold: the jackpot byte is never consumed, and the anomaly byte is
\* consumed exactly by the seventh packet of a hand of seven.
C33_OnlySeventhPacketReadsAnomalyByte ==
    probe.fn = "deriveHand" =>
        /\ 31 \notin ConsumedPositions(Len(probe.packets))
        /\ 12 \in ConsumedPositions(Len(probe.packets)) <=> Len(probe.packets) = 7
        /\ Len(probe.packets) = 7 =>
              probe.packets[7] = mapByteToPacket(probe.turnSeed[12 + 1], 6,
                                                 probe.turnSeed[13 + 1])


(***************************************************************************)
(* C34: enemy attacks come after the packets and the removal of the dead:  *)
(* an enemy the packets took to 0 hp deals nothing, each enemy still alive *)
(* with intent ATTACK deals its damage to the player once, shield first,   *)
(* and DEFEND and IDLE enemies deal nothing.  (The ION_STORM anomaly then  *)
(* takes its own 5 from the player.)                                       *)
(***************************************************************************)
RECURSIVE StruckBy(_, _)
StruckBy(player, damages) ==
    IF damages = <<>> THEN player
    ELSE StruckBy(ShieldThenHp(player, Head(damages)), Tail(damages))

\* The damages of the enemies of a list that are alive and attack, in list order.
ClientStrikes(enemies) ==
    LET strikers == SelectSeqBy(enemies, {e \in Range(enemies) :
                                             e.hp > 0 /\ e.intent = "ATTACK"})
    IN  [i \in DOMAIN strikers |-> strikers[i].damage]

VerifierStrikes(enemies) ==
    LET strikers == SelectSeqBy(enemies, {e \in Range(enemies) :
                                             e.hp > 0 /\ e.isAttacking})
    IN  [i \in DOMAIN strikers |-> strikers[i].damage]

C34_EnemiesStrikeAfterSweep ==
    /\ Resolved =>
          LET struck == StruckBy(probe.afterPackets.player,
                                 ClientStrikes(probe.afterPackets.enemies))
          IN  probe.output.player = IF probe.state.anomaly = "ION_STORM"
                                    THEN ShieldThenHp(struck, 5) ELSE struck
    /\ probe.fn = "resolveTurn" /\ ~probe.v_afterPackets.reverted =>
          probe.verifier.newPlayer =
              StruckBy(probe.v_afterPackets.player,
                       VerifierStrikes(probe.v_afterPackets.enemies))

\* The packet killed the Drone, which attacks, and the second enemy, which
\* attacks too, struck the player.
C34_Witness ==
    /\ Resolved
    /\ probe.state.anomaly = "STABLE"
    /\ Len(probe.state.enemies) = 2
    /\ Len(probe.afterPackets.enemies) = 1
    /\ probe.afterPackets.enemies[1].id = "enemy-1"
    /\ probe.afterPackets.enemies[1].intent = "ATTACK"
    /\ probe.output.player = ShieldThenHp(probe.afterPackets.player, 8)
    /\ probe.output.player # probe.afterPackets.player
    /\ probe.verifier.newPlayer = probe.output.player


(***************************************************************************)
(* C35: in the store every resolution consumes a complete hand: whatever   *)
(* the interleaving of executeTurn with the two delayed callbacks,         *)
(* resolveTurn runs only on a state whose hand holds the 5 + (turn mod 3)  *)
(* packets of the turn, each of them assigned.                             *)
(***************************************************************************)
C35_ResolvesCompleteHand ==
    call.made /\ call.fn = "resolveTimer" /\ ~call.threw =>
        /\ Len(call.input.dataStream) = 5 + (call.input.turnCounter % 3)
        /\ call.input.status = "PLANNING"


(***************************************************************************)
(* C36: submitTurn is accepted only if the commitment of the claimed       *)
(* pre-state (player, enemies, stored currentTurn, stored score) is the    *)
(* stored stateHash; accepted, it stores currentTurn + 1, the new score    *)
(* and the commitment of the resolved post-state with that turn and score; *)
(* rejected, it leaves the contract's storage as it was.                   *)
(***************************************************************************)
\* What a state hash commits to: the packed fields, in order.
Commitment(player, enemies, turn, score) ==
    <<player.hp, player.maxHp, player.shield, turn, score>>
        \o [i \in 1..(6 * Len(enemies)) |->
               LET e == enemies[((i - 1) \div 6) + 1]
               IN  <<e.id, e.hp, e.maxHp, e.damage,
                     IF e.isAttacking THEN 1 ELSE 0,
                     IF e.isCache THEN 1 ELSE 0>>[((i - 1) % 6) + 1]]

C36_SubmitTurnChainsCommitments ==
    [][(env = "chain" /\ call'.made /\ call'.fn = "submitTurn") =>
          IF call'.reverted THEN chain' = chain
          ELSE LET gameId == call'.gameId
                   before == chain.games[gameId]
                   after == chain'.games[gameId]
                   r == V_resolveTurn(before.seed, call'.player, call'.enemies,
                                      before.currentTurn, call'.assignments, before.score)
               IN  /\ before.status = "ACTIVE"
                   /\ Commitment(call'.player, call'.enemies, before.currentTurn,
                                 before.score) = before.stateHash
                   /\ ~r.reverted
                   /\ after.currentTurn = before.currentTurn + 1
                   /\ after.score = r.newScore
                   /\ after.stateHash = Commitment(r.newPlayer, r.newEnemies,
                                                   before.currentTurn + 1, r.newScore)
                   /\ \A other \in DOMAIN chain.games \ {gameId} :
                         chain'.games[other] = chain.games[other]]_vars

\* A second turn was accepted: it started from what the first one stored.
C36_Witness ==
    /\ env = "chain"
    /\ call.made /\ call.fn = "submitTurn" /\ ~call.reverted
    /\ chain.games[call.gameId].currentTurn = 3
    /\ chain.games[call.gameId].stateHash[4] = 3


(***************************************************************************)
(* C37: whatever startGame, _entropyCallback, submitTurn, claimVictory and *)
(* forfeitGame calls were made and by whom, each address has at most one   *)
(* game that is WAITING_FOR_VRF or ACTIVE, and activeGameId of the address *)
(* is the id of that game.                                                 *)
(***************************************************************************)
LiveGames(player) ==
    {gameId \in DOMAIN chain.games :
        /\ chain.games[gameId].player = player
        /\ chain.games[gameId].status \in {"WAITING_FOR_VRF", "ACTIVE"}}

C37_OneLiveGamePerPlayer ==
    env = "chain" =>
        \A player \in Addresses :
            /\ Cardinality(LiveGames(player)) <= 1
            /\ \A gameId \in LiveGames(player) : chain.activeGameId[player] = gameId

\* A player whose first game is over has started a second one.
C37_Witness ==
    /\ env = "chain"
    /\ \E player \in Addresses :
          /\ LiveGames(player) = {2}
          /\ chain.games[1].player = player
          /\ chain.games[1].status = "COMPLETED"
          /\ chain.activeGameId[player] = 2


(***************************************************************************)
(* C38: the status of a game only moves forward, NONE -> WAITING_FOR_VRF   *)
(* -> ACTIVE -> COMPLETED, with forfeitGame alone taking WAITING_FOR_VRF   *)
(* straight to COMPLETED; a submitTurn, claimVictory or forfeitGame that   *)
(* changes a game was sent by the game's player; and no call changes the   *)
(* status, result, score, turn or stateHash of a COMPLETED game.           *)
(***************************************************************************)
StatusSteps ==
    {<<"NONE", "WAITING_FOR_VRF">>, <<"WAITING_FOR_VRF", "ACTIVE">>,
     <<"ACTIVE", "COMPLETED">>, <<"WAITING_FOR_VRF", "COMPLETED">>}

\* The status of a game in storage before a step: NONE for an id not written.
StatusBefore(gameId) ==
    IF gameId \in DOMAIN chain.games THEN chain.games[gameId].status ELSE "NONE"

C38_StatusMovesForward ==
    [][env = "chain" =>
          \A gameId \in DOMAIN chain'.games :
              LET after == chain'.games[gameId]
                  written == gameId \in DOMAIN chain.games
              IN  /\ \/ after.status = StatusBefore(gameId)
                     \/ <<StatusBefore(gameId), after.status>> \in StatusSteps
                  /\ (StatusBefore(gameId) = "WAITING_FOR_VRF"
                         /\ after.status = "COMPLETED") => call'.fn = "forfeitGame"
                  /\ (written /\ after # chain.games[gameId]
                         /\ call'.fn \in {"submitTurn", "claimVictory", "forfeitGame"})
                        => /\ call'.sender = chain.games[gameId].player
                           /\ call'.gameId = gameId
                  /\ StatusBefore(gameId) = "COMPLETED" => after = chain.games[gameId]]_vars

\* The player of a game that was played and is COMPLETED has just had a
\* submitTurn, a claimVictory or a forfeitGame for it rejected.
C38_Witness ==
    /\ env = "chain"
    /\ call.made /\ call.fn \in {"submitTurn", "claimVictory", "forfeitGame"}
    /\ call.reverted
    /\ call.gameId \in DOMAIN chain.games
    /\ chain.games[call.gameId].status = "COMPLETED"
    /\ chain.games[call.gameId].currentTurn > 1
    /\ call.sender = chain.games[call.gameId].player


(***************************************************************************)
(* C39: whenever the store's gameState is PLANNING, its hand (dataStream   *)
(* and packetQueue), its anomaly and its jackpot flag are those            *)
(* derivePacketsFromSeed gives for the store's seed and the state's        *)
(* turnCounter, so the hand has 5 + (turnCounter mod 3) packets.           *)
(***************************************************************************)
C39_PlanningHoldsHandOfItsTurn ==
    (env = "store" /\ gameState # NoState /\ gameState.status = "PLANNING") =>
        LET d == derivePacketsFromSeed(store.currentLevelSeed, gameState.turnCounter)
        IN  /\ gameState.dataStream = d.packets
            /\ store.packetQueue = d.packets
            /\ gameState.anomaly = d.anomaly
            /\ gameState.jackpotHit = d.jackpotHit
            /\ Len(gameState.dataStream) = 5 + (gameState.turnCounter % 3)

\* generateNewHand has dealt the seven packets of turn 2 after a resolution.
C39_Witness ==
    /\ env = "store"
    /\ call.made /\ call.fn = "newHandTimer"
    /\ gameState # NoState
    /\ gameState.status = "PLANNING"
    /\ gameState.turnCounter = 2
    /\ Len(gameState.dataStream) = 7
    /\ Len(store.moveHistory) = 1


(***************************************************************************)
(* C40: whatever assignPacket and unassignPacket calls were made,          *)
(* pendingAssignments names each packet of the hand at most once and every *)
(* entry pairs a packet of the hand with a target allowed for its kind:    *)
(* trash for any kind, an enemy with hp > 0 for ATTACK, CRIT and MISS, the *)
(* player for HEAL and DEFEND.  An assignPacket that is rejected returns   *)
(* false and leaves pendingAssignments as it was.                          *)
(***************************************************************************)
AllowedTarget(packetType, targetId) ==
    \/ targetId = "trash"
    \/ /\ packetType \in {"ATTACK", "CRIT", "MISS"}
       /\ \E i \in DOMAIN gameState.enemies :
             gameState.enemies[i].id = targetId /\ gameState.enemies[i].hp > 0
    \/ /\ packetType \in {"HEAL", "DEFEND"}
       /\ targetId = "player"

PendingWellFormed ==
    \A i \in DOMAIN store.pendingAssignments :
        LET a == store.pendingAssignments[i]
        IN  /\ \A j \in DOMAIN store.pendingAssignments :
                  store.pendingAssignments[j].packetId = a.packetId => j = i
            /\ \E k \in DOMAIN store.packetQueue :
                  /\ store.packetQueue[k].id = a.packetId
                  /\ AllowedTarget(store.packetQueue[k].type, a.targetId)

C40_PendingAssignmentsWellFormed ==
    /\ []((env = "store" /\ gameState # NoState) => PendingWellFormed)
    /\ [][(env = "store" /\ call'.made /\ call'.fn = "assignPacket") =>
             IF call'.returned
             THEN /\ Len(store'.pendingAssignments) = Len(store.pendingAssignments) + 1
                  /\ SubSeq(store'.pendingAssignments, 1, Len(store.pendingAssignments))
                        = store.pendingAssignments
             ELSE store'.pendingAssignments = store.pendingAssignments]_vars

\* An assignPacket was refused while the first packet of the hand, an ATTACK or
\* a CRIT, is pending at a target that is not the player.
C40_Witness ==
    /\ env = "store"
    /\ gameState # NoState
    /\ call.made /\ call.fn = "assignPacket" /\ ~call.returned
    /\ store.pendingAssignments # <<>>
    /\ \E k \in DOMAIN store.packetQueue :
          /\ store.packetQueue[k].id = 0
          /\ store.packetQueue[k].type \in {"ATTACK", "CRIT"}
          /\ store.pendingAssignments[1].packetId = 0
          /\ store.pendingAssignments[1].targetId # "player"

=============================================================================
